---------------------------- MODULE Spec2Model ----------------------------
(***************************************************************************)
(* A model of the SOLIDserver Terraform provider's core:                   *)
(*   - the session/transport layer (NewSOLIDserver, GetVersion,            *)
(*     SubmitRequest, SOLIDserver.Request),                                *)
(*   - the version normalization of GetVersion,                            *)
(*   - the allocation engine (ipaddressfindfree, ip6addressfindfree,       *)
(*     ipsubnetfindbysize, ip6subnetfindbysize, vlanidfindfree),           *)
(*   - resourceipaddressCreate racing with itself on one subnet,           *)
(*   - the address codec (hex and 32-bit forms, prefix math).              *)
(*                                                                         *)
(* Strings are sequences of one-character strings, so that splitting,      *)
(* parsing and formatting are computed, not assumed.                       *)
(***************************************************************************)
EXTENDS Integers, Sequences, FiniteSets, TLC

VARIABLES
    declared,       \* NewSOLIDserver's `version` argument (characters)
    opened,         \* outcome of NewSOLIDserver: "pending", "session", "error", "panic"
    Version,        \* SOLIDserver.Version
    Authenticated,  \* SOLIDserver.Authenticated
    call,           \* per caller: the locals of Request / SubmitRequest in flight
    hist,           \* per caller: outcome of each attempt (End() call) of the call in flight
    seen,           \* history of the session: what its calls have observed so far
    vin,            \* version check: the probe answer and declared version given to GetVersion
    vout,           \* version check: GetVersion's outcome and resulting Version
    fin,            \* allocation: the strategy and the free ranges the server answers
    fout,           \* allocation: what ipaddressfindfree returned
    cin,            \* address codec: the function applied and its argument
    cout,           \* address codec: the value the function returned
    ain,            \* allocation call: the function called, its arguments, the server's answer
    aout,           \* allocation call: the requests issued and what the function returned
    taken,          \* create calls: what the server has created (per address its owner, or the list)
    wf,             \* create calls: per create handler call, its position and locals
    nom,            \* network interface handler: its locals, gparameters and the requests sent
    smart           \* SMART membership: the server's member list and the dnsaddtosmart calls

sessVars == <<declared, opened, Version, Authenticated, call, hist, seen>>
verVars  == <<vin, vout>>
findVars == <<fin, fout>>
codecVars == <<cin, cout>>
allocVars == <<ain, aout>>
raceVars == <<taken, wf>>
objVars  == <<nom, smart>>
vars     == <<declared, opened, Version, Authenticated, call, hist, seen,
              vin, vout, fin, fout, cin, cout, ain, aout, taken, wf, nom, smart>>

---------------------------------------------------------------------------
(* Strings *)

Digits == {"0", "1", "2", "3", "4", "5", "6", "7", "8", "9"}

DigitVal(c) ==
    CASE c = "0" -> 0 [] c = "1" -> 1 [] c = "2" -> 2 [] c = "3" -> 3
      [] c = "4" -> 4 [] c = "5" -> 5 [] c = "6" -> 6 [] c = "7" -> 7
      [] c = "8" -> 8 [] c = "9" -> 9

RECURSIVE DecVal(_)
DecVal(cs) ==
    IF cs = <<>> THEN 0
    ELSE DecVal(SubSeq(cs, 1, Len(cs) - 1)) * 10 + DigitVal(cs[Len(cs)])

\* strconv.Atoi: an optional sign followed by at least one decimal digit.
Atoi(cs) ==
    LET signed == cs # <<>> /\ cs[1] \in {"+", "-"}
        body   == IF signed THEN Tail(cs) ELSE cs
    IN  IF body = <<>> \/ \E i \in 1..Len(body) : body[i] \notin Digits
        THEN [ok |-> FALSE, num |-> 0]
        ELSE [ok |-> TRUE,
              num |-> IF signed /\ cs[1] = "-" THEN 0 - DecVal(body) ELSE DecVal(body)]

\* strings.Split(s, "."): always at least one (possibly empty) component.
RECURSIVE SplitDot(_)
SplitDot(cs) ==
    IF cs = <<>> THEN << <<>> >>
    ELSE IF Head(cs) = "." THEN << <<>> >> \o SplitDot(Tail(cs))
    ELSE LET r == SplitDot(Tail(cs))
         IN  << <<Head(cs)>> \o Head(r) >> \o Tail(r)

RECURSIVE JoinDot(_)
JoinDot(parts) ==
    IF Len(parts) = 1 THEN parts[1]
    ELSE parts[1] \o <<".">> \o JoinDot(Tail(parts))

Min(a, b) == IF a < b THEN a ELSE b

---------------------------------------------------------------------------
(* GetVersion: version normalization *)

VersionParts == 3

\* for i := 0; i < len(StrVersion) && i < 3; i++ { s.Version = s.Version*10 + num|0 }
RECURSIVE VersionFold(_, _, _)
VersionFold(v, StrVersion, i) ==
    IF i > Len(StrVersion) \/ i > VersionParts THEN v
    ELSE LET a == Atoi(StrVersion[i])
         IN  VersionFold(v * 10 + (IF a.ok THEN a.num ELSE 0), StrVersion, i + 1)

\* The branch scaling left out.
BranchScaleMissing(v) == v

\* "Handling new branch version"
BranchScale(v) == IF v < 100 THEN v * 10 ELSE v

\* The version computed from the probed member_version.
ProbedVersion(v0, rversion) == BranchScale(VersionFold(v0, SplitDot(rversion), 1))

\* The version computed from the provider's declared version.
DeclaredVersion(v0, version) == VersionFold(v0, SplitDot(version), 1)

\* What GetVersion makes of the answer to its probe: the outcome of
\* NewSOLIDserver and the resulting Version.  `res` is SubmitRequest's result
\* ("ok" when err == nil), `buf` the decoded records of the body.
GetVersionResult(res, status, buf, version, v0) ==
    IF res = "ok" /\ status = 200 /\ Len(buf) = 0
    THEN [opened |-> "panic", Version |-> v0]               \* buf[0]: index out of range
    ELSE IF res = "ok" /\ status = 200 /\ buf[1].has
    THEN [opened |-> "session", Version |-> ProbedVersion(v0, buf[1].member_version)]
    ELSE IF res = "ok" /\ (status <= 400 /\ status < 500)
    THEN IF version # <<>>
         THEN [opened |-> "session", Version |-> DeclaredVersion(v0, version)]
         ELSE [opened |-> "error", Version |-> v0]          \* Insufficient Permissions
    ELSE [opened |-> "error", Version |-> v0]               \* transport error / No Answer

---------------------------------------------------------------------------
(* SubmitRequest and SOLIDserver.Request *)

Opener   == 0                 \* NewSOLIDserver / GetVersion
Workers  == {1, 2}            \* goroutines sharing the session through Request
Callers  == {Opener} \cup Workers

Methods  == {"get", "post", "put", "delete"}

\* A mutating method given a second try.
MaxTryRetryingWrites(method) == IF method = "get" THEN 6 ELSE 2

\* httpRequestTimings[method].maxTry
MaxTry(method) == IF method = "get" THEN 6 ELSE 1

\* One table whatever the flag.
RetryTableStatic(authenticated) == {429, 500}

\* The statuses handed to apiclient.Retry, by the value read from s.Authenticated.
RetryTable(authenticated) ==
    IF authenticated = FALSE THEN {429, 500} ELSE {408, 429, 500, 401}

\* The retry count handed to apiclient.Retry.
RetryerCount == 3

\* Every non-empty body wrapped.
RepackAnyBody(body) ==
    IF Len(body) > 0 THEN <<"[">> \o body \o <<"]">> ELSE body

\* if len(body) > 0 && body[0] == '{' && body[len(body)-1] == '}' { body = "[" + body + "]" }
RepackBody(body) ==
    IF Len(body) > 0 /\ body[1] = "{" /\ body[Len(body)] = "}"
    THEN <<"[">> \o body \o <<"]">>
    ELSE body

\* Any status from 200 up taken for a success.
SetsAuthenticatedNoUpperBound(authenticated, status) ==
    authenticated = FALSE /\ 200 <= status

\* if s.Authenticated == false && (200 <= resp.StatusCode && resp.StatusCode <= 204)
SetsAuthenticated(authenticated, status) ==
    authenticated = FALSE /\ (200 <= status /\ status <= 204)

\* The flag following the status of the last response.
AuthenticatedFollowsLastStatus(authenticated, status) ==
    200 <= status /\ status <= 204

\* if s.Authenticated == false && (...) { s.Authenticated = true }: the value of
\* the flag once Request is past this statement.
AuthenticatedAfter(authenticated, status) ==
    IF SetsAuthenticated(authenticated, status) THEN TRUE ELSE authenticated

\* Every transport error taken for a timeout.
IsTimeoutAlways(err) == TRUE

\* Whether the first error of errs is a net.Error reporting Timeout().
IsTimeout(err) == err = "timeout"

\* What the server and the network may answer to one HTTP exchange.
Statuses     == {200, 204, 400, 401, 408, 429, 500}
Bodies       == { <<"{", "}">>, <<"[", "]">> }
ProbeBodies  == { <<>>,
                  << [has |-> FALSE, member_version |-> <<>>] >>,
                  << [has |-> TRUE, member_version |-> <<"7", ".", "2", ".", "1">>] >>,
                  << [has |-> TRUE, member_version |-> <<"8", ".", "0">>] >> }
Declarable   == { <<>>, <<"7", ".", "3", ".", "0">>, <<"8", ".", "0">> }
TransportErrors == {"timeout", "other"}

Responses(c) ==
    [kind : {"resp"}, status : Statuses,
     body : IF c = Opener THEN ProbeBodies ELSE Bodies]
Failures == [kind : TransportErrors, status : {0}, body : {<<>>}]
Outcomes(c) == Responses(c) \cup Failures
\* Fewer answers to the workers, for runs with several of them in flight: no
\* timeout, one body, one status of each kind the session tells apart.
PlainOutcomes(c) ==
    {o \in Outcomes(c) : c \in Workers =>
        /\ o.kind # "timeout"
        /\ o.body \in {<<>>, <<"{", "}">>}
        /\ o.status \in {0, 200, 400, 401, 500}}

Idle ==
    [pc |-> "idle", method |-> "get", table |-> {}, retryer |-> 0, attempt |-> 0,
     retryCount |-> 0, res |-> "none", status |-> 0, body |-> <<>>,
     authAtStart |-> FALSE, afterOk |-> FALSE]

\* GetVersion: gorequest.New() without Retry, then SubmitRequest(s, apiclient, "get", ...)
Probe == [Idle EXCEPT !.pc = "loop", !.method = "get"]

SessionInit ==
    /\ declared \in Declarable
    /\ opened = "pending"
    /\ Version = 0
    /\ Authenticated = FALSE
    /\ call = [c \in Callers |-> IF c = Opener THEN Probe ELSE Idle]
    /\ hist = [c \in Callers |-> <<>>]
    /\ seen = [probe |-> [res |-> "none", status |-> 0, records |-> 0, versioned |-> FALSE],
               requestOk |-> FALSE]

\* Request, up to the call of SubmitRequest: the retry layer is configured from
\* the value of s.Authenticated read here.
RequestStart(p, method) ==
    /\ opened = "session"
    /\ call[p].pc = "idle"
    /\ call' = [call EXCEPT ![p] =
                  [Idle EXCEPT !.pc = "loop", !.method = method,
                               !.table = RetryTable(Authenticated),
                               !.retryer = RetryerCount,
                               !.authAtStart = Authenticated,
                               !.afterOk = seen.requestOk]]
    /\ hist' = [hist EXCEPT ![p] = <<>>]
    /\ UNCHANGED <<declared, opened, Version, Authenticated, seen, verVars, findVars, codecVars, allocVars, raceVars, objVars>>

\* for retryCount < t.maxTry { ... End()
BeginAttempt(c) ==
    /\ call[c].pc = "loop"
    /\ call[c].retryCount < MaxTry(call[c].method)
    /\ call' = [call EXCEPT ![c].pc = "end"]
    /\ hist' = [hist EXCEPT ![c] = Append(@, [kind |-> "pending", status |-> 0])]
    /\ UNCHANGED <<declared, opened, Version, Authenticated, seen, verVars, findVars, codecVars, allocVars, raceVars, objVars>>

\* The loop ends with the budget used up: "timeout retry count exceeded".
Exhausted(c) ==
    /\ call[c].pc = "loop"
    /\ ~(call[c].retryCount < MaxTry(call[c].method))
    /\ call' = [call EXCEPT ![c].pc = "ret", ![c].res = "exhausted"]
    /\ UNCHANGED <<declared, opened, Version, Authenticated, hist, seen, verVars, findVars, codecVars, allocVars, raceVars, objVars>>

\* One HTTP exchange inside End().  A response whose status the retry layer was
\* configured with is sent again while retries are left; any other response ends
\* the attempt with errs == nil; a transport error ends it with errs = [err].
Exchange(c, o) ==
    /\ call[c].pc = "end"
    /\ IF o.kind = "resp"
       THEN IF o.status \in call[c].table /\ call[c].attempt < call[c].retryer
            THEN /\ call' = [call EXCEPT ![c].attempt = @ + 1]
                 /\ hist' = hist
            ELSE /\ call' = [call EXCEPT ![c].pc = "ret", ![c].res = "ok",
                                         ![c].status = o.status, ![c].body = o.body]
                 /\ hist' = [hist EXCEPT ![c][Len(hist[c])] =
                                [kind |-> "resp", status |-> o.status]]
       ELSE /\ hist' = [hist EXCEPT ![c][Len(hist[c])] = [kind |-> o.kind, status |-> 0]]
            /\ IF IsTimeout(o.kind)
               THEN call' = [call EXCEPT ![c].pc = "loop", ![c].retryCount = @ + 1]
               ELSE call' = [call EXCEPT ![c].pc = "ret", ![c].res = "nonretryable"]
    /\ UNCHANGED <<declared, opened, Version, Authenticated, seen, verVars, findVars, codecVars, allocVars, raceVars, objVars>>

\* Request, after SubmitRequest returned: error wrapping, body repacking and the
\* authenticated flag.  The caller is handed (status, body) or the error.
RequestReturn(p) ==
    /\ p \in Workers
    /\ call[p].pc = "ret"
    /\ IF call[p].res # "ok"
       THEN /\ call' = [call EXCEPT ![p] =
                          [Idle EXCEPT !.res = "error",
                                       !.authAtStart = call[p].authAtStart]]
            /\ UNCHANGED <<Authenticated, seen, objVars>>
       ELSE /\ call' = [call EXCEPT ![p] =
                          [Idle EXCEPT !.res = "returned", !.status = call[p].status,
                                       !.body = RepackBody(call[p].body),
                                       !.authAtStart = call[p].authAtStart]]
            /\ Authenticated' = AuthenticatedAfter(Authenticated, call[p].status)
            /\ seen' = [seen EXCEPT !.requestOk =
                           @ \/ (200 <= call[p].status /\ call[p].status <= 204)]
    /\ hist' = [hist EXCEPT ![p] = <<>>]
    /\ UNCHANGED <<declared, opened, Version, verVars, findVars, codecVars, allocVars, raceVars, objVars>>

\* GetVersion, after SubmitRequest returned, and NewSOLIDserver's return.
GetVersionReturn ==
    /\ call[Opener].pc = "ret"
    /\ LET r == GetVersionResult(call[Opener].res, call[Opener].status,
                                 call[Opener].body, declared, Version)
       IN  /\ opened' = r.opened
           /\ Version' = r.Version
    /\ call' = [call EXCEPT ![Opener] = [Idle EXCEPT !.pc = "done"]]
    /\ hist' = [hist EXCEPT ![Opener] = <<>>]
    /\ seen' = [seen EXCEPT !.probe =
                   [res |-> call[Opener].res, status |-> call[Opener].status,
                    records |-> Len(call[Opener].body),
                    versioned |-> Len(call[Opener].body) > 0
                                  /\ call[Opener].body[1].has]]
    /\ UNCHANGED <<declared, Authenticated, verVars, findVars, codecVars, allocVars, raceVars, objVars>>

---------------------------------------------------------------------------
(* Specifications of the session *)

NoVersionCheck == vin = <<>> /\ vout = <<>>
NoAllocation   == fin = <<>> /\ fout = <<>>
NoCodec        == cin = <<>> /\ cout = <<>>
NoAllocationCall == ain = <<>> /\ aout = <<>>
NoCreate       == taken = <<>> /\ wf = <<>>
NoObjects      == nom = <<>> /\ smart = <<>>

Init == SessionInit /\ NoVersionCheck /\ NoAllocation /\ NoCodec /\ NoAllocationCall /\ NoCreate /\ NoObjects

\* One session, opened and then used by one worker at a time; the network may
\* answer anything, timeouts included.
Next ==
    \/ GetVersionReturn
    \/ \E m \in Methods : RequestStart(1, m)
    \/ \E c \in {Opener, 1} : BeginAttempt(c)
    \/ \E c \in {Opener, 1} : Exhausted(c)
    \/ \E c \in {Opener, 1} : \E o \in Outcomes(c) : Exchange(c, o)
    \/ RequestReturn(1)

Spec == Init /\ [][Next]_vars

\* One session used by the workers concurrently.
NextConc ==
    \/ GetVersionReturn
    \/ \E p \in Workers : \E m \in {"get", "post"} : RequestStart(p, m)
    \/ \E c \in Callers : BeginAttempt(c)
    \/ \E c \in Callers : Exhausted(c)
    \/ \E c \in Callers : \E o \in PlainOutcomes(c) : Exchange(c, o)
    \/ \E p \in Workers : RequestReturn(p)

SpecConc == Init /\ [][NextConc]_vars

\* One opened session and one caller, the server answering with any short
\* body: every text of up to MaxBodyLen characters over BodyAlphabet.
MaxBodyLen == 3
BodyAlphabet == {"{", "}", "[", "x"}
AnyBodies == UNION { [1..n -> BodyAlphabet] : n \in 0..MaxBodyLen }
BodyOutcomes ==
    [kind : {"resp"}, status : {200, 404, 500}, body : AnyBodies]

BodyInit ==
    /\ declared = <<>>
    /\ opened = "session"
    /\ Version = 730
    /\ Authenticated \in BOOLEAN
    /\ call = [c \in Callers |-> IF c = Opener THEN [Idle EXCEPT !.pc = "done"] ELSE Idle]
    /\ hist = [c \in Callers |-> <<>>]
    /\ seen = [probe |-> [res |-> "none", status |-> 0, records |-> 0, versioned |-> FALSE],
               requestOk |-> FALSE]
    /\ NoVersionCheck /\ NoAllocation /\ NoCodec /\ NoAllocationCall /\ NoCreate /\ NoObjects

NextBody ==
    \/ \E m \in {"post"} : RequestStart(1, m)
    \/ BeginAttempt(1)
    \/ Exhausted(1)
    \/ \E o \in BodyOutcomes \cup Failures : Exchange(1, o)
    \/ RequestReturn(1)

SpecBody == BodyInit /\ [][NextBody]_vars

---------------------------------------------------------------------------
(* Claims about the transport: SubmitRequest *)

InSubmit(c) == call[c].pc \in {"loop", "end", "ret"}
AllTimeouts(h, n) == \A i \in 1..n : h[i].kind = "timeout"

\* C1: a SubmitRequest call makes at most 6 attempts for GET and at most 1 for
\* POST/PUT/DELETE; it returns the response of the first attempt that completes
\* without a transport error, all attempts before it having timed out; and it
\* returns the retry-exhausted error exactly when every attempt of the budget
\* timed out (after the first timeout for POST/PUT/DELETE).
C1_AttemptBudget ==
    \A c \in {Opener, 1} :
        LET h      == hist[c]
            budget == IF call[c].method = "get" THEN 6 ELSE 1
        IN  InSubmit(c) =>
              /\ Len(h) <= budget
              /\ (call[c].pc = "ret" /\ call[c].res = "ok") =>
                    /\ Len(h) >= 1
                    /\ h[Len(h)] = [kind |-> "resp", status |-> call[c].status]
                    /\ AllTimeouts(h, Len(h) - 1)
              /\ (call[c].pc = "ret" /\ call[c].res = "exhausted") =>
                    /\ Len(h) = budget
                    /\ AllTimeouts(h, budget)
              /\ (call[c].pc = "ret" /\ Len(h) = budget /\ AllTimeouts(h, budget)) =>
                    call[c].res = "exhausted"

\* A GET that timed out five times and was answered on its sixth attempt.
C1_Witness ==
    /\ call[1].pc = "ret" /\ call[1].method = "get" /\ call[1].res = "ok"
    /\ Len(hist[1]) = 6 /\ AllTimeouts(hist[1], 5)
    /\ hist[1][6].kind = "resp"

\* C2: a transport error that is not a timeout ends the call at once as
\* non-retryable, whatever budget remains; every attempt that was followed by
\* another attempt had timed out.
C2_NonTimeoutAborts ==
    \A c \in {Opener, 1} :
        LET h == hist[c]
        IN  InSubmit(c) =>
              /\ \A i \in 1..Len(h) :
                    h[i].kind = "other" =>
                       /\ i = Len(h)
                       /\ call[c].pc = "ret"
                       /\ call[c].res = "nonretryable"
              /\ \A i \in 1..(Len(h) - 1) : h[i].kind = "timeout"
              /\ (call[c].pc = "ret" /\ call[c].res = "nonretryable") =>
                    (Len(h) >= 1 /\ h[Len(h)].kind = "other")

\* A GET ended by a non-timeout error on its first attempt, five attempts unused.
C2_Witness ==
    /\ call[1].pc = "ret" /\ call[1].method = "get"
    /\ call[1].res = "nonretryable" /\ call[1].retryCount = 0
    /\ hist[1] = << [kind |-> "other", status |-> 0] >>

---------------------------------------------------------------------------
(* Claims about NewSOLIDserver / GetVersion *)

OpenReturned  == call[Opener].pc = "done"
ProbeAnswered == seen.probe.res = "ok"
ProbeGaveVersion ==
    ProbeAnswered /\ seen.probe.status = 200 /\ seen.probe.versioned

\* C3: when the probe is answered with a 4xx status and a version was declared,
\* NewSOLIDserver returns a session whose Version is the one computed from the
\* declared version.
C3_DeclaredVersionOn4xx ==
    (OpenReturned /\ ProbeAnswered /\ declared # <<>>
       /\ 400 <= seen.probe.status /\ seen.probe.status <= 499)
    => (opened = "session" /\ Version = DeclaredVersion(0, declared))

\* C4: when the probe gave no version and none was declared, NewSOLIDserver
\* returns an error and no session; no worker ever runs a call unless a session
\* was returned.
C4_NoVersionNoSession ==
    /\ (OpenReturned /\ ~ProbeGaveVersion /\ declared = <<>>) => opened = "error"
    /\ \A p \in Workers : InSubmit(p) => opened = "session"

---------------------------------------------------------------------------
(* Claims about SOLIDserver.Request and the authenticated flag *)

\* C5: a Request call in flight retries exactly {429, 500} when it read
\* Authenticated = FALSE at its start and exactly {401, 408, 429, 500} when it
\* read TRUE, at most 3 times either way: a response with a status of its set
\* is handed back only once the 3 retries are spent.
C5_RetryTableByFlag ==
    \A p \in Workers :
        InSubmit(p) =>
          /\ call[p].table = IF call[p].authAtStart
                             THEN {401, 408, 429, 500} ELSE {429, 500}
          /\ call[p].retryer = 3
          /\ call[p].attempt <= 3
          /\ (call[p].pc = "ret" /\ call[p].res = "ok"
                /\ call[p].status \in call[p].table) => call[p].attempt = 3

\* Two calls in flight on one session under different retry tables: the second
\* started after an earlier call had set the flag.
C5_Witness ==
    /\ InSubmit(1) /\ InSubmit(2)
    /\ call[1].table = {429, 500}
    /\ call[2].table = {401, 408, 429, 500}
    /\ call[2].pc = "ret" /\ call[2].status = 401 /\ call[2].attempt = 3

ProbeSaw2xx ==
    OpenReturned /\ ProbeAnswered
    /\ 200 <= seen.probe.status /\ seen.probe.status <= 204

\* C6 as stated: once any call of the session, the version probe included, has
\* returned with a response in [200,204], Authenticated is TRUE and every call
\* started afterwards uses the authenticated table.
C6_AnyResponseAuthenticates ==
    /\ (ProbeSaw2xx \/ seen.requestOk) => Authenticated = TRUE
    /\ \A p \in Workers :
          (InSubmit(p) /\ ProbeSaw2xx) => call[p].table = {401, 408, 429, 500}

\* C6 amended: Authenticated is TRUE exactly once a Request call has returned
\* with a response in [200,204] (the version probe does not count: the flag is
\* still FALSE when NewSOLIDserver returns), and every Request call started
\* after that uses the authenticated table.
C6_RequestResponseAuthenticates ==
    /\ seen.requestOk <=> (Authenticated = TRUE)
    /\ \A p \in Workers :
          (InSubmit(p) /\ call[p].afterOk) => call[p].table = {401, 408, 429, 500}
    /\ \A p \in Workers :
          (InSubmit(p) /\ ~call[p].afterOk /\ ~call[p].authAtStart)
             => call[p].table = {429, 500}

\* The probe was answered 200, a first call ran under the pre-authentication
\* table and returned 2xx, and a call started afterwards is in flight.
C6_Witness ==
    /\ ProbeSaw2xx
    /\ seen.requestOk /\ Authenticated = TRUE
    /\ InSubmit(1) /\ call[1].afterOk /\ call[1].table = {401, 408, 429, 500}
    /\ InSubmit(2) /\ ~call[2].afterOk /\ call[2].table = {429, 500}

\* C7: under every interleaving of concurrent Request calls on one session the
\* Authenticated flag is a boolean that goes from FALSE to TRUE at most once and
\* is never set back to FALSE by any step (a later non-2xx response and a
\* transport error included), and a call that read FALSE at its start, stale or
\* not, runs with the pre-authentication table {429, 500} and leaves the flag
\* alone unless its own response is in [200,204].
C7_FlagMonotonic ==
    /\ [](Authenticated \in BOOLEAN)
    /\ [][Authenticated = TRUE => Authenticated' = TRUE]_vars
    /\ [](\A p \in Workers :
            (InSubmit(p) /\ ~call[p].authAtStart) => call[p].table = {429, 500})
    /\ [][\A p \in Workers :
            (Authenticated' # Authenticated /\ call[p].pc = "ret" /\ call'[p].pc = "idle")
               => (200 <= call[p].status /\ call[p].status <= 204)]_vars

\* The flag is TRUE, one call that had read TRUE has come back with a transport
\* error or a response outside [200,204], and a call that read FALSE before the
\* flag was set is holding a non-2xx response under the table {429, 500}.
C7_Witness ==
    /\ Authenticated = TRUE
    /\ call[2].pc = "idle" /\ call[2].authAtStart
    /\ \/ call[2].res = "error"
       \/ call[2].res = "returned" /\ call[2].status = 401
    /\ call[1].pc = "ret" /\ ~call[1].authAtStart
    /\ call[1].table = {429, 500} /\ call[1].res = "ok" /\ call[1].status = 500

\* A body that is one JSON object by its first and last character.
LooksLikeObject(body) ==
    body # <<>> /\ Head(body) = "{" /\ body[Len(body)] = "}"

\* C17: whenever Request returns a response, whatever its status, the body it
\* hands back is '[' + body + ']' for a non-empty body beginning with '{' and
\* ending with '}', and the body unchanged otherwise; normalizing the body
\* handed back once more changes nothing.
C17_ObjectBodyWrappedOnce ==
    [][\A p \in Workers :
         (call[p].pc = "ret" /\ call[p].res = "ok" /\ call'[p].pc = "idle") =>
            /\ call'[p].res = "returned"
            /\ call'[p].status = call[p].status
            /\ call'[p].body = IF LooksLikeObject(call[p].body)
                               THEN <<"[">> \o call[p].body \o <<"]">>
                               ELSE call[p].body
            /\ ~LooksLikeObject(call'[p].body)
            /\ RepackBody(call'[p].body) = call'[p].body]_vars

\* Request has handed back a 404 whose object body came wrapped.
C17_Witness ==
    /\ call[1].pc = "idle" /\ call[1].res = "returned" /\ call[1].status = 404
    /\ call[1].body = <<"[", "{", "x", "}", "]">>

---------------------------------------------------------------------------
(* The version normalization on its own: GetVersion applied to one version
   string, supplied either by the probe or by the provider's option *)

MaxVersionParts == 4

VersionComponents ==
    { <<"0">>, <<"1">>, <<"3">>, <<"7">>, <<"8">>, <<"1", "0">>, <<"x">>, <<>> }

RECURSIVE Tuples(_, _)
Tuples(S, n) ==
    IF n = 0 THEN { <<>> }
    ELSE { <<x>> \o t : x \in S, t \in Tuples(S, n - 1) }

VersionStrings ==
    UNION { { JoinDot(parts) : parts \in Tuples(VersionComponents, n) }
            : n \in 1..MaxVersionParts }

NoSession ==
    /\ declared = <<>>
    /\ opened = "pending"
    /\ Version = 0
    /\ Authenticated = FALSE
    /\ call = [c \in Callers |-> Idle]
    /\ hist = [c \in Callers |-> <<>>]
    /\ seen = [probe |-> [res |-> "none", status |-> 0, records |-> 0, versioned |-> FALSE],
               requestOk |-> FALSE]

VersionInit ==
    /\ vin \in [src : {"probed", "declared"}, str : VersionStrings]
    /\ vout = <<>>
    /\ NoSession /\ NoAllocation /\ NoCodec /\ NoAllocationCall /\ NoCreate /\ NoObjects

\* GetVersion on a fresh session: either the probe is answered 200 with the
\* string as member_version, or it is answered 400 and the string was declared.
GetVersionOn ==
    /\ vout = <<>>
    /\ vout' = IF vin.src = "probed"
               THEN GetVersionResult("ok", 200,
                        << [has |-> TRUE, member_version |-> vin.str] >>, <<>>, 0)
               ELSE GetVersionResult("ok", 400, <<>>, vin.str, 0)
    /\ UNCHANGED <<vin, sessVars, findVars, codecVars, allocVars, raceVars, objVars>>

SpecVersion == VersionInit /\ [][GetVersionOn]_vars

\* The normalization as the specification words it: the first up-to-three
\* dot-separated components folded as v*10 + component, a non-numeric
\* component counting as 0, the result multiplied by 10 when below 100.
IsNumeric(cs) == cs # <<>> /\ \A i \in 1..Len(cs) : cs[i] \in Digits
ComponentValue(cs) == IF IsNumeric(cs) THEN DecVal(cs) ELSE 0
PartAt(parts, i) == IF i <= Len(parts) THEN ComponentValue(parts[i]) ELSE 0
Folded(parts) ==
    CASE Len(parts) = 1 -> PartAt(parts, 1)
      [] Len(parts) = 2 -> PartAt(parts, 1) * 10 + PartAt(parts, 2)
      [] OTHER -> (PartAt(parts, 1) * 10 + PartAt(parts, 2)) * 10 + PartAt(parts, 3)
Normalized(str) ==
    LET v == Folded(SplitDot(str)) IN IF v < 100 THEN v * 10 ELSE v

\* C8: whichever source supplied the version string, the session's Version is
\* the normalized value of that string ("7.2.1" gives 721, "8.0" gives 800).
C8_SameNormalizationBothSources ==
    (vout # <<>> /\ vout.opened = "session") => vout.Version = Normalized(vin.str)

\* (major, minor, patch) of a version string, missing components read as 0.
Triple(str) ==
    LET parts == SplitDot(str)
    IN  <<PartAt(parts, 1), PartAt(parts, 2), PartAt(parts, 3)>>
LexLess(a, b) ==
    \/ a[1] < b[1]
    \/ a[1] = b[1] /\ a[2] < b[2]
    \/ a[1] = b[1] /\ a[2] = b[2] /\ a[3] < b[3]

VersionOf(src, str) ==
    IF src = "probed" THEN ProbedVersion(0, str) ELSE DeclaredVersion(0, str)

\* Version strings of one to three numeric components.
NumericComponents == { c \in VersionComponents : IsNumeric(c) }
NumericVersions ==
    UNION { { JoinDot(parts) : parts \in Tuples(NumericComponents, n) } : n \in 1..3 }
IsNumericVersion(str) ==
    LET parts == SplitDot(str)
    IN  Len(parts) <= 3 /\ \A i \in 1..Len(parts) : IsNumeric(parts[i])

\* C9 as stated, for versions probed from the server: of two version strings
\* of one to three numeric components, the greater in (major, minor, patch)
\* order never has the smaller normalized integer.
C9_OrderPreservedAnyNumeric ==
    (vout # <<>> /\ vin.src = "probed" /\ IsNumericVersion(vin.str)) =>
        \A s2 \in NumericVersions :
            LexLess(Triple(s2), Triple(vin.str))
               => ~(vout.Version < VersionOf("probed", s2))

\* Version strings the order is kept on: every component a single digit, the
\* major at least 1, three components, or two when probed from the server.
IsSingleDigitVersion(src, str) ==
    LET parts == SplitDot(str)
    IN  /\ IsNumericVersion(str)
        /\ \A i \in 1..Len(parts) : Len(parts[i]) = 1
        /\ PartAt(parts, 1) >= 1
        /\ Len(parts) = 3 \/ (Len(parts) = 2 /\ src = "probed")
SingleDigitProbed   == { s \in NumericVersions : IsSingleDigitVersion("probed", s) }
SingleDigitDeclared == { s \in NumericVersions : IsSingleDigitVersion("declared", s) }
SingleDigitVersions(src) ==
    IF src = "probed" THEN SingleDigitProbed ELSE SingleDigitDeclared

\* C9 amended: among version strings whose components are single digits with
\* major >= 1 (three components, or two when probed), the greater in (major,
\* minor, patch) order never has the smaller Version, and the gates
\* Version < 700, 710, 730, 800 select exactly the versions older than 7.0,
\* 7.1, 7.3, 8.0.
C9_OrderPreservedSingleDigits ==
    (vout # <<>> /\ IsSingleDigitVersion(vin.src, vin.str)) =>
        /\ vout.opened = "session"
        /\ \A src2 \in {"probed", "declared"} :
             \A s2 \in SingleDigitVersions(src2) :
                /\ LexLess(Triple(s2), Triple(vin.str))
                     => vout.Version > VersionOf(src2, s2)
                /\ Triple(s2) = Triple(vin.str)
                     => vout.Version = VersionOf(src2, s2)
        /\ (vout.Version < 700) <=> LexLess(Triple(vin.str), <<7, 0, 0>>)
        /\ (vout.Version < 710) <=> LexLess(Triple(vin.str), <<7, 1, 0>>)
        /\ (vout.Version < 730) <=> LexLess(Triple(vin.str), <<7, 3, 0>>)
        /\ (vout.Version < 800) <=> LexLess(Triple(vin.str), <<8, 0, 0>>)

\* A two-component version probed from the server, scaled to 730, on the 7.3 gate.
C9_Witness ==
    /\ vout # <<>> /\ vin.src = "probed" /\ vin.str = <<"7", ".", "3">>
    /\ vout.Version = 730
    /\ <<"7", ".", "1", ".", "8">> \in SingleDigitVersions("declared")
    /\ VersionOf("declared", <<"7", ".", "1", ".", "8">>) = 718

---------------------------------------------------------------------------
(* Address codec: hexiptoip, and the netip.Addr operations ipaddressfindfree uses *)

HexDigits == Digits \cup {"a", "b", "c", "d", "e", "f", "A", "B", "C", "D", "E", "F"}

HexVal(c) ==
    CASE c \in Digits -> DigitVal(c)
      [] c \in {"a", "A"} -> 10 [] c \in {"b", "B"} -> 11 [] c \in {"c", "C"} -> 12
      [] c \in {"d", "D"} -> 13 [] c \in {"e", "E"} -> 14 [] c \in {"f", "F"} -> 15

\* One %02x verb of Sscanf: up to two hexadecimal digits read from position pos.
ScanHex2(cs, pos) ==
    IF pos > Len(cs) \/ cs[pos] \notin HexDigits
    THEN [ok |-> FALSE, val |-> 0, next |-> pos]
    ELSE IF pos + 1 > Len(cs) \/ cs[pos + 1] \notin HexDigits
    THEN [ok |-> TRUE, val |-> HexVal(cs[pos]), next |-> pos + 1]
    ELSE [ok |-> TRUE, val |-> HexVal(cs[pos]) * 16 + HexVal(cs[pos + 1]), next |-> pos + 2]

DigitChar(n) ==
    CASE n = 0 -> "0" [] n = 1 -> "1" [] n = 2 -> "2" [] n = 3 -> "3" [] n = 4 -> "4"
      [] n = 5 -> "5" [] n = 6 -> "6" [] n = 7 -> "7" [] n = 8 -> "8" [] n = 9 -> "9"

\* The %d verb of Sprintf, for n >= 0.
RECURSIVE Itoa(_)
Itoa(n) == IF n < 10 THEN <<DigitChar(n)>> ELSE Itoa(n \div 10) \o <<DigitChar(n % 10)>>

\* fmt.Sprintf("%d.%d.%d.%d", a, b, c, d)
Dotted(o) == Itoa(o[1]) \o <<".">> \o Itoa(o[2]) \o <<".">> \o Itoa(o[3]) \o <<".">> \o Itoa(o[4])

\* hexiptoip: count, _ := fmt.Sscanf(hexip, "%02x%02x%02x%02x", ...); "" unless count == 4
hexiptoip(hexip) ==
    LET a == ScanHex2(hexip, 1)
        b == ScanHex2(hexip, a.next)
        c == ScanHex2(hexip, b.next)
        d == ScanHex2(hexip, c.next)
    IN  IF a.ok /\ b.ok /\ c.ok /\ d.ok
        THEN Dotted(<<a.val, b.val, c.val, d.val>>)
        ELSE <<>>

\* netip.Addr: an IPv4 address of four octets, or the zero Addr (what Next and
\* Prev return past either end of the space, and whatever Next makes of it).
ZeroAddr == [is4 |-> FALSE, o |-> <<0, 0, 0, 0>>]

\* netip.ParseAddr of a dotted IPv4 string: four fields of one to three digits,
\* no leading zero, each at most 255.
ParseAddr(cs) ==
    LET parts == SplitDot(cs)
        okField(f) == /\ f # <<>> /\ Len(f) <= 3
                      /\ \A i \in 1..Len(f) : f[i] \in Digits
                      /\ (Len(f) > 1 => f[1] # "0")
                      /\ DecVal(f) <= 255
    IN  IF Len(parts) = 4 /\ \A i \in 1..4 : okField(parts[i])
        THEN [err |-> FALSE,
              addr |-> [is4 |-> TRUE, o |-> [i \in 1..4 |-> DecVal(parts[i])]]]
        ELSE [err |-> TRUE, addr |-> ZeroAddr]

\* Addr.Next: the zero Addr after 255.255.255.255; Next of the zero Addr is not
\* an IPv4 address either.
AddrNext(ip) ==
    IF ~ip.is4 THEN ZeroAddr
    ELSE IF ip.o[4] < 255 THEN [ip EXCEPT !.o[4] = @ + 1]
    ELSE IF ip.o[3] < 255 THEN [ip EXCEPT !.o[3] = @ + 1, !.o[4] = 0]
    ELSE IF ip.o[2] < 255 THEN [ip EXCEPT !.o[2] = @ + 1, !.o[3] = 0, !.o[4] = 0]
    ELSE IF ip.o[1] < 255 THEN [ip EXCEPT !.o[1] = @ + 1, !.o[2] = 0, !.o[3] = 0, !.o[4] = 0]
    ELSE ZeroAddr

\* Addr.Prev: the zero Addr before 0.0.0.0.
AddrPrev(ip) ==
    IF ~ip.is4 THEN ZeroAddr
    ELSE IF ip.o[4] > 0 THEN [ip EXCEPT !.o[4] = @ - 1]
    ELSE IF ip.o[3] > 0 THEN [ip EXCEPT !.o[3] = @ - 1, !.o[4] = 255]
    ELSE IF ip.o[2] > 0 THEN [ip EXCEPT !.o[2] = @ - 1, !.o[3] = 255, !.o[4] = 255]
    ELSE IF ip.o[1] > 0 THEN [ip EXCEPT !.o[1] = @ - 1, !.o[2] = 255, !.o[3] = 255, !.o[4] = 255]
    ELSE ZeroAddr

OctetsLess(x, y) ==
    \/ x[1] < y[1]
    \/ x[1] = y[1] /\ x[2] < y[2]
    \/ x[1] = y[1] /\ x[2] = y[2] /\ x[3] < y[3]
    \/ x[1] = y[1] /\ x[2] = y[2] /\ x[3] = y[3] /\ x[4] < y[4]

\* Addr.Compare: by bit length first (0 for the zero Addr, 32 for IPv4), then by value.
AddrCompare(ip, ip2) ==
    IF ~ip.is4 /\ ip2.is4 THEN 0 - 1
    ELSE IF ip.is4 /\ ~ip2.is4 THEN 1
    ELSE IF OctetsLess(ip.o, ip2.o) THEN 0 - 1
    ELSE IF OctetsLess(ip2.o, ip.o) THEN 1
    ELSE 0

\* Addr.String
AddrString(ip) ==
    IF ip.is4 THEN Dotted(ip.o)
    ELSE <<"i", "n", "v", "a", "l", "i", "d", " ", "I", "P">>

---------------------------------------------------------------------------
(* Allocation engine: ipaddressfindfree *)

\* The cap on the candidates of one call.
MaxFind == 32

\* A field of a decoded JSON record: a string, or anything else (absent, number).
Str(cs)   == [isString |-> TRUE, val |-> cs]
NotString == [isString |-> FALSE, val |-> <<>>]

\* for currentIP := startIP; currentIP.Compare(endIP) <= 0; currentIP = currentIP.Next()
\* `full` tells that the cap was met inside the loop (return addresses, nil).
RECURSIVE WalkUp(_, _, _)
WalkUp(currentIP, endIP, addresses) ==
    IF AddrCompare(currentIP, endIP) <= 0
    THEN IF Len(addresses) >= MaxFind
         THEN [full |-> TRUE, addresses |-> addresses]
         ELSE WalkUp(AddrNext(currentIP), endIP, Append(addresses, AddrString(currentIP)))
    ELSE [full |-> FALSE, addresses |-> addresses]

\* for currentIP := endIP; currentIP.Compare(startIP) >= 0; currentIP = currentIP.Prev()
RECURSIVE WalkDown(_, _, _)
WalkDown(currentIP, startIP, addresses) ==
    IF AddrCompare(currentIP, startIP) >= 0
    THEN IF Len(addresses) >= MaxFind
         THEN [full |-> TRUE, addresses |-> addresses]
         ELSE WalkDown(AddrPrev(currentIP), startIP, Append(addresses, AddrString(currentIP)))
    ELSE [full |-> FALSE, addresses |-> addresses]

\* for i := 0; i < len(buf); i++ { ... }  return addresses, nil
RECURSIVE WalkRanges(_, _, _, _)
WalkRanges(method, buf, i, addresses) ==
    IF i > Len(buf) THEN addresses
    ELSE LET startIPStr == buf[i].free_start_ip_addr
             endIPStr   == buf[i].free_end_ip_addr
         IN  IF ~startIPStr.isString \/ ~endIPStr.isString
             THEN WalkRanges(method, buf, i + 1, addresses)
             ELSE LET startIP == ParseAddr(hexiptoip(startIPStr.val))
                      endIP   == ParseAddr(hexiptoip(endIPStr.val))
                  IN  IF startIP.err \/ endIP.err
                      THEN WalkRanges(method, buf, i + 1, addresses)
                      ELSE LET w == IF method = "start"
                                    THEN WalkUp(startIP.addr, endIP.addr, addresses)
                                    ELSE WalkDown(endIP.addr, startIP.addr, addresses)
                           IN  IF w.full THEN w.addresses
                               ELSE WalkRanges(method, buf, i + 1, w.addresses)

\* The server-delegated branch: the hostaddr of every record that has one.
RECURSIVE HostAddrs(_, _)
HostAddrs(buf, i) ==
    IF i > Len(buf) THEN <<>>
    ELSE (IF buf[i].hostaddr.isString THEN <<buf[i].hostaddr.val>> ELSE <<>>)
         \o HostAddrs(buf, i + 1)

\* ipaddressfindfree, given what s.Request returned: err, resp.StatusCode and
\* the records decoded from the body.
ipaddressfindfree(method, res) ==
    IF method = "start" \/ method = "end"
    THEN IF ~res.err /\ res.status = 200 /\ Len(res.buf) > 0
         THEN [addresses |-> WalkRanges(method, res.buf, 1, <<>>), err |-> FALSE]
         ELSE [addresses |-> <<>>, err |-> res.err]
    ELSE IF ~res.err /\ res.status = 200 /\ Len(res.buf) > 0
         THEN [addresses |-> HostAddrs(res.buf, 1), err |-> FALSE]
         ELSE [addresses |-> <<>>, err |-> res.err]

\* What the server may answer.
MaxRecords == 2

FreeRange(a, b) ==
    [free_start_ip_addr |-> a, free_end_ip_addr |-> b, hostaddr |-> NotString]
FreeRanges ==
    { FreeRange(Str(<<"0","A","0","0","0","0","0","1">>), Str(<<"0","A","0","0","0","0","0","3">>)),
      FreeRange(Str(<<"0","a","0","0","0","0","F","E">>), Str(<<"0","a","0","0","0","1","2","0">>)),
      FreeRange(Str(<<"0","A","0","0","0","0","0","3">>), Str(<<"0","A","0","0","0","0","0","1">>)),
      FreeRange(Str(<<"0","A","0","0","0","0","G","1">>), Str(<<"0","A","0","0","0","0","0","3">>)),
      FreeRange(Str(<<"0","A","0","0","0","0","0","1">>), NotString),
      FreeRange(Str(<<"0","0","0","0","0","0","0","0">>), Str(<<"0","0","0","0","0","0","0","2">>)),
      FreeRange(Str(<<"C","0","A","8","0","1","0","5">>), Str(<<"C","0","A","8","0","1","1","8">>)),
      FreeRange(Str(<<"F","F","F","F","F","F","F","0">>), Str(<<"F","F","F","F","F","F","F","F">>)) }
HostRecords ==
    { [free_start_ip_addr |-> NotString, free_end_ip_addr |-> NotString,
       hostaddr |-> Str(<<"0","A","0","0","0","0","0","1">>)],
      [free_start_ip_addr |-> NotString, free_end_ip_addr |-> NotString,
       hostaddr |-> Str(<<"0","A","0","0","0","0","0","2">>)],
      [free_start_ip_addr |-> NotString, free_end_ip_addr |-> NotString,
       hostaddr |-> NotString] }

RecordLists(S) == UNION { Tuples(S, n) : n \in 0..MaxRecords }

FindInit ==
    /\ fin \in { f \in [method : {"start", "end", "optimized"},
                        res : [err : BOOLEAN, status : {200, 404},
                               buf : RecordLists(FreeRanges) \cup RecordLists(HostRecords)]] :
                   /\ f.res.err => (f.res.status = 404 /\ f.res.buf = <<>>)
                   /\ f.res.buf \in
                        (IF f.method = "optimized" THEN RecordLists(HostRecords)
                                                   ELSE RecordLists(FreeRanges)) }
    /\ fout = <<>>
    /\ NoSession /\ NoVersionCheck /\ NoCodec /\ NoAllocationCall /\ NoCreate /\ NoObjects

FindFreeAddress ==
    /\ fout = <<>>
    /\ fout' = ipaddressfindfree(fin.method, fin.res)
    /\ UNCHANGED <<fin, sessVars, verVars, codecVars, allocVars, raceVars, objVars>>

SpecFind == FindInit /\ [][FindFreeAddress]_vars

---------------------------------------------------------------------------
(* Claims about ipaddressfindfree *)

\* A range boundary the server reported in wire form: eight hexadecimal digits.
WellFormed(f) ==
    f.isString /\ Len(f.val) = 8 /\ \A i \in 1..8 : f.val[i] \in HexDigits
WireOctets(cs) ==
    [i \in 1..4 |-> HexVal(cs[2 * i - 1]) * 16 + HexVal(cs[2 * i])]

\* The number of addresses of the closed interval [s, e], counted up to MaxFind + 1.
IntervalSize(s, e) ==
    IF OctetsLess(e, s) THEN 0
    ELSE LET dhi == (e[1] * 256 + e[2]) - (s[1] * 256 + s[2])
             dlo == (e[3] * 256 + e[4]) - (s[3] * 256 + s[4])
         IN  IF dhi >= 2 THEN MaxFind + 1
             ELSE Min(MaxFind + 1, dhi * 65536 + dlo + 1)

RECURSIVE TotalFree(_, _)
TotalFree(buf, i) ==
    IF i > Len(buf) THEN 0
    ELSE (IF WellFormed(buf[i].free_start_ip_addr) /\ WellFormed(buf[i].free_end_ip_addr)
          THEN IntervalSize(WireOctets(buf[i].free_start_ip_addr.val),
                            WireOctets(buf[i].free_end_ip_addr.val))
          ELSE 0)
         + TotalFree(buf, i + 1)

RangeWalked ==
    /\ fout # <<>>
    /\ fin.method \in {"start", "end"}
    /\ ~fin.res.err /\ fin.res.status = 200

\* C10: with strategy "start" or "end", ipaddressfindfree returns exactly
\* min(32, T) candidates, T being the number of addresses of the well-formed
\* free ranges of the answer, each a closed interval [start, end].
C10_ExactlyMinOfCapAndTotal ==
    RangeWalked =>
        /\ ~fout.err
        /\ Len(fout.addresses) = Min(32, TotalFree(fin.res.buf, 1))


\* The address k steps above (k >= 0) or below (k < 0) the address of octets o,
\* for |k| <= MaxFind + 1, as four octets; outside 0.0.0.0-255.255.255.255 the
\* result is not an address (a component leaves 0..255).
Stepped(o, k) ==
    LET lo  == o[3] * 256 + o[4] + k
        clo == IF lo >= 65536 THEN 1 ELSE IF lo < 0 THEN 0 - 1 ELSE 0
        hi  == o[1] * 256 + o[2] + clo
        l   == lo - clo * 65536
    IN  <<hi \div 256, hi % 256, l \div 256, l % 256>>

\* The addresses of one reported range in the order of the strategy, up to
\* MaxFind + 1 of them: ascending from the start, or descending from the end.
RangeAddresses(method, r) ==
    IF WellFormed(r.free_start_ip_addr) /\ WellFormed(r.free_end_ip_addr)
    THEN LET s == WireOctets(r.free_start_ip_addr.val)
             e == WireOctets(r.free_end_ip_addr.val)
             n == IntervalSize(s, e)
         IN  [k \in 1..n |-> IF method = "start" THEN Dotted(Stepped(s, k - 1))
                                                 ELSE Dotted(Stepped(e, 1 - k))]
    ELSE <<>>

RECURSIVE Concatenation(_, _, _)
Concatenation(method, buf, i) ==
    IF i > Len(buf) THEN <<>>
    ELSE RangeAddresses(method, buf[i]) \o Concatenation(method, buf, i + 1)

FirstOf(n, seq) == SubSeq(seq, 1, Min(n, Len(seq)))

\* The dotted address cs lies between the boundaries of range r.
InsideRange(cs, r) ==
    /\ WellFormed(r.free_start_ip_addr) /\ WellFormed(r.free_end_ip_addr)
    /\ ~ParseAddr(cs).err
    /\ LET a == ParseAddr(cs).addr.o
           s == WireOctets(r.free_start_ip_addr.val)
           e == WireOctets(r.free_end_ip_addr.val)
       IN  ~OctetsLess(a, s) /\ ~OctetsLess(e, a)

\* C11: with strategy "start" (resp. "end") the result of ipaddressfindfree is
\* the first 32 elements of the concatenation, in the order of the server's
\* records, of each range's addresses ascending from its start (resp.
\* descending from its end); a range with an undecodable boundary contributes
\* nothing and does not stop the later ranges; every candidate lies inside one
\* of the reported ranges.
C11_FirstOfConcatenation ==
    RangeWalked =>
        /\ fout.addresses = FirstOf(32, Concatenation(fin.method, fin.res.buf, 1))
        /\ \A k \in 1..Len(fout.addresses) :
              \E i \in 1..Len(fin.res.buf) : InsideRange(fout.addresses[k], fin.res.buf[i])


---------------------------------------------------------------------------
(* Allocation engine: the functions called with a session, each as a request
   built from its arguments and s.Version, the server's answer, and the
   decoding of the answer into candidates *)

\* strconv.Itoa
FormatInt(n) == IF n < 0 THEN <<"-">> \o Itoa(0 - n) ELSE Itoa(n)

\* The walk that takes the end of the range too.
RECURSIVE VlanRangeWalkInclusive(_, _, _, _)
VlanRangeWalkInclusive(vnID, maxVnID, j, vnIDs) ==
    IF vnID <= maxVnID /\ j < 8
    THEN VlanRangeWalkInclusive(vnID + 1, maxVnID, j + 1, Append(vnIDs, FormatInt(vnID)))
    ELSE vnIDs

\* for vnID < maxVnID && j < 8 { vnIDs = append(vnIDs, strconv.Itoa(vnID)); vnID++; j++ }
RECURSIVE VlanRangeWalk(_, _, _, _)
VlanRangeWalk(vnID, maxVnID, j, vnIDs) ==
    IF vnID < maxVnID /\ j < 8
    THEN VlanRangeWalk(vnID + 1, maxVnID, j + 1, Append(vnIDs, FormatInt(vnID)))
    ELSE vnIDs

\* for i := range buf { if s.Version < 700 { ... } else { ... } }
RECURSIVE VlanDecode(_, _, _, _)
VlanDecode(version, buf, i, vnIDs) ==
    IF i > Len(buf) THEN vnIDs
    ELSE IF version < 700
    THEN VlanDecode(version, buf, i + 1,
                    IF buf[i].vlmvlan_vlan_id.isString
                    THEN Append(vnIDs, buf[i].vlmvlan_vlan_id.val) ELSE vnIDs)
    ELSE VlanDecode(version, buf, i + 1,
                    IF buf[i].free_start_vlan_id.isString /\ buf[i].free_end_vlan_id.isString
                    THEN VlanRangeWalk(Atoi(buf[i].free_start_vlan_id.val).num,
                                       Atoi(buf[i].free_end_vlan_id.val).num, 0, vnIDs)
                    ELSE vnIDs)

\* The filter chosen as if the free ranges came with 7.3.
VlanFilterFrom730(version) ==
    IF version < 730 THEN "row_enabled='2'" ELSE "type='free'"

\* The WHERE filter vlanidfindfree adds next to the domain name.
VlanFilter(version) ==
    IF version < 700 THEN "row_enabled='2'" ELSE "type='free'"

\* An answer without records reported as an error.
VlanErrorWithoutRecords(version, res) ==
    IF ~res.err /\ res.status = 200 /\ Len(res.buf) > 0
    THEN [list |-> VlanDecode(version, res.buf, 1, <<>>), err |-> FALSE]
    ELSE [list |-> <<>>, err |-> TRUE]

\* vlanidfindfree, from the answer of s.Request on.
vlanidfindfree(version, res) ==
    IF ~res.err /\ res.status = 200 /\ Len(res.buf) > 0
    THEN [list |-> VlanDecode(version, res.buf, 1, <<>>), err |-> FALSE]
    ELSE [list |-> <<>>, err |-> res.err]

\* The loop shared by ip6addressfindfree, ipsubnetfindbysize and
\* ip6subnetfindbysize: the string found under `key` in every record that has one.
RECURSIVE FieldOfEach(_, _, _)
FieldOfEach(buf, key, i) ==
    IF i > Len(buf) THEN <<>>
    ELSE (IF buf[i][key].isString THEN <<buf[i][key].val>> ELSE <<>>)
         \o FieldOfEach(buf, key, i + 1)

\* ip6addressfindfree, from the answer of s.Request on.
ip6addressfindfree(res) ==
    IF ~res.err /\ res.status = 200 /\ Len(res.buf) > 0
    THEN [list |-> FieldOfEach(res.buf, "hostaddr6", 1), err |-> FALSE]
    ELSE [list |-> <<>>, err |-> res.err]


\* strings.Split(s, sep) for a one-character separator.
RECURSIVE Split(_, _)
Split(cs, sep) ==
    IF cs = <<>> THEN << <<>> >>
    ELSE IF Head(cs) = sep THEN << <<>> >> \o Split(Tail(cs), sep)
    ELSE LET r == Split(Tail(cs), sep)
         IN  << <<Head(cs)>> \o Head(r) >> \o Tail(r)

HexChar(n) ==
    CASE n < 10 -> DigitChar(n)
      [] n = 10 -> "a" [] n = 11 -> "b" [] n = 12 -> "c"
      [] n = 13 -> "d" [] n = 14 -> "e" [] n = 15 -> "f"

\* The %x verb without its width: one digit below 16.
HexUnpadded(n) == IF n < 16 THEN <<HexChar(n)>> ELSE <<HexChar(n \div 16), HexChar(n % 16)>>

\* The %02x verb of Sprintf, for 0 <= n <= 255.
Hex02(n) == <<HexChar(n \div 16), HexChar(n % 16)>>

\* iptohexip: four parts, each converted by Atoi with its error dropped (0 on a
\* failure), all four within 0..255, or else "".
iptohexip(ip) ==
    LET ipDec == SplitDot(ip)
    IN  IF Len(ipDec) = 4
        THEN LET a == Atoi(ipDec[1]).num
                 b == Atoi(ipDec[2]).num
                 c == Atoi(ipDec[3]).num
                 d == Atoi(ipDec[4]).num
             IN  IF 0 <= a /\ a <= 255 /\ 0 <= b /\ b <= 255 /\
                    0 <= c /\ c <= 255 /\ 0 <= d /\ d <= 255
                 THEN Hex02(a) \o Hex02(b) \o Hex02(c) \o Hex02(d)
                 ELSE <<>>
        ELSE <<>>

\* The %04s verb of Sprintf: zeros on the left up to four characters.
RECURSIVE Pad04(_)
Pad04(b) == IF Len(b) >= 4 THEN b ELSE Pad04(<<"0">> \o b)

RECURSIVE Concat(_)
Concat(seqs) == IF seqs = <<>> THEN <<>> ELSE Head(seqs) \o Concat(Tail(seqs))

\* ip6tohexip6: eight colon-separated groups, each padded to four characters.
ip6tohexip6(ip) ==
    LET ipDec == Split(ip, ":")
    IN  IF Len(ipDec) = 8
        THEN Concat([k \in 1..8 |-> Pad04(ipDec[k])])
        ELSE <<>>

\* ipsubnetfindbysize, from the answer of s.Request on (requestedIP empty).
ipsubnetfindbysize(res) ==
    IF ~res.err /\ res.status = 200 /\ Len(res.buf) > 0
    THEN [list |-> FieldOfEach(res.buf, "start_ip_addr", 1), err |-> FALSE]
    ELSE [list |-> <<>>, err |-> res.err]

\* ip6subnetfindbysize, from the answer of s.Request on (requestedIP empty).
ip6subnetfindbysize(res) ==
    IF ~res.err /\ res.status = 200 /\ Len(res.buf) > 0
    THEN [list |-> FieldOfEach(res.buf, "start_ip6_addr", 1), err |-> FALSE]
    ELSE [list |-> <<>>, err |-> res.err]


\* The five functions of the allocation engine.
AllocFunctions ==
    {"ipaddressfindfree", "ip6addressfindfree", "ipsubnetfindbysize",
     "ip6subnetfindbysize", "vlanidfindfree"}

\* The requested address never short-cuts the query.
NeverReturnsRequested(fn, requestedIP) == FALSE

\* if len(requestedIP) > 0 { ...; return subnetAddresses, nil }
ReturnsRequested(fn, requestedIP) ==
    fn \in {"ipsubnetfindbysize", "ip6subnetfindbysize"} /\ Len(requestedIP) > 0

\* The request each function hands to s.Request: the service, the filter of
\* its WHERE clause and the parameter that scopes it.
AllocQuery(fn, method, version) ==
    CASE fn = "ipaddressfindfree" ->
           IF method = "start" \/ method = "end"
           THEN [method |-> "get", service |-> "rest/ip_free_address_list",
                 filter |-> "free_start_ip_addr != free_end_ip_addr", scope |-> "subnet_id"]
           ELSE [method |-> "get", service |-> "rpc/ip_find_free_address",
                 filter |-> "", scope |-> "subnet_id"]
      [] fn = "ip6addressfindfree" ->
           [method |-> "get", service |-> "rpc/ip6_find_free_address6",
            filter |-> "", scope |-> "subnet6_id"]
      [] fn = "ipsubnetfindbysize" ->
           [method |-> "get", service |-> "rpc/ip_find_free_subnet",
            filter |-> "", scope |-> "block_id"]
      [] fn = "ip6subnetfindbysize" ->
           [method |-> "get", service |-> "rpc/ip6_find_free_subnet6",
            filter |-> "", scope |-> "block6_id"]
      [] fn = "vlanidfindfree" ->
           [method |-> "get", service |-> "rest/vlmvlan_list",
            filter |-> VlanFilter(version), scope |-> "vlmdomain_name"]

\* What each function makes of the answer of s.Request.
AllocDecode(fn, method, version, res) ==
    CASE fn = "ipaddressfindfree" ->
           LET r == ipaddressfindfree(method, res)
           IN  [list |-> r.addresses, err |-> r.err]
      [] fn = "ip6addressfindfree"  -> ip6addressfindfree(res)
      [] fn = "ipsubnetfindbysize"  -> ipsubnetfindbysize(res)
      [] fn = "ip6subnetfindbysize" -> ip6subnetfindbysize(res)
      [] fn = "vlanidfindfree"      -> vlanidfindfree(version, res)

\* Records the server may answer with. A field is a string or is absent.
MaxVlanRecords == 3

AddressRecord(key, val) ==
    [k \in {"hostaddr", "hostaddr6", "start_ip_addr", "start_ip6_addr",
            "free_start_ip_addr", "free_end_ip_addr"} |->
        IF k = key THEN Str(val) ELSE NotString]
AddressRecords ==
    { AddressRecord("hostaddr", <<"0","a","0","0","0","0","0","5">>),
      AddressRecord("hostaddr6", <<"2","0","0","1","0","d","b","8">>),
      AddressRecord("start_ip_addr", <<"0","a","0","0","0","1","0","0">>),
      AddressRecord("start_ip6_addr", <<"2","0","0","1","0","d","b","9">>),
      AddressRecord("none", <<>>),
      [AddressRecord("free_start_ip_addr", <<"0","A","0","0","0","0","0","1">>)
          EXCEPT !["free_end_ip_addr"] = Str(<<"0","A","0","0","0","0","0","3">>)] }

VlanRecord(id, start, end) ==
    [vlmvlan_vlan_id |-> id, free_start_vlan_id |-> start, free_end_vlan_id |-> end]
VlanRecords ==
    { VlanRecord(Str(<<"1","2">>), NotString, NotString),
      VlanRecord(NotString, NotString, NotString),
      VlanRecord(Str(<<"1","3">>), Str(<<"5","0">>), Str(<<"5","2">>)),
      VlanRecord(NotString, Str(<<"1","0">>), Str(<<"2","0">>)),
      VlanRecord(NotString, Str(<<"3","0">>), Str(<<"4","0">>)),
      VlanRecord(NotString, Str(<<"1","0","0">>), Str(<<"1","0","3">>)),
      VlanRecord(NotString, Str(<<"5">>), Str(<<"5">>)),
      VlanRecord(NotString, Str(<<"x">>), Str(<<"3">>)),
      VlanRecord(NotString, Str(<<"7">>), NotString) }

\* What s.Request may return to the function: an error, or a status and the
\* records decoded from the body (none when the body is not a JSON array).
Answers(fn) ==
    LET bufs == IF fn = "vlanidfindfree"
                THEN UNION { Tuples(VlanRecords, n) : n \in 0..MaxVlanRecords }
                ELSE RecordLists(AddressRecords)
    IN  { [err |-> TRUE, status |-> 0, buf |-> <<>>] }
        \cup [err : {FALSE}, status : {200, 404}, buf : bufs]

RequestedAddresses ==
    { <<>>,
      <<"1","0",".","0",".","0",".","1">>,
      <<"1","9","2",".","1","6","8",".","1",".","0">>,
      <<"1","0",".","0",".","0">>,
      <<"2","0","0","1",":","d","b","8",":","0",":","0",":","0",":","0",":","0",":","1">> }

AllocVersions == {600, 699, 700, 730}

AllocInit ==
    /\ ain \in { a \in [fn : AllocFunctions, method : {"start", "optimized"},
                       requestedIP : RequestedAddresses] :
                   /\ (a.fn # "ipaddressfindfree" => a.method = "optimized")
                   /\ (a.fn \notin {"ipsubnetfindbysize", "ip6subnetfindbysize"}
                         => a.requestedIP = <<>>) }
    /\ aout = [pc |-> "called", requests |-> <<>>, res |-> <<>>, list |-> <<>>, err |-> FALSE]
    /\ declared = <<>>
    /\ opened = "session"
    /\ Version \in AllocVersions
    /\ Authenticated = FALSE
    /\ call = [c \in Callers |-> Idle]
    /\ hist = [c \in Callers |-> <<>>]
    /\ seen = [probe |-> [res |-> "none", status |-> 0, records |-> 0, versioned |-> FALSE],
               requestOk |-> FALSE]
    /\ NoVersionCheck /\ NoAllocation /\ NoCodec /\ NoCreate /\ NoObjects

\* The function up to its first return or its call of s.Request.
AllocRequest ==
    /\ aout.pc = "called"
    /\ IF ReturnsRequested(ain.fn, ain.requestedIP)
       THEN aout' = [aout EXCEPT !.pc = "done",
                                 !.list = << IF ain.fn = "ipsubnetfindbysize"
                                             THEN iptohexip(ain.requestedIP)
                                             ELSE ip6tohexip6(ain.requestedIP) >>,
                                 !.err = FALSE]
       ELSE aout' = [aout EXCEPT !.pc = "sent",
                                 !.requests = Append(@, AllocQuery(ain.fn, ain.method, Version))]
    /\ UNCHANGED <<ain, sessVars, verVars, findVars, codecVars, raceVars, objVars>>

\* s.Request returns and the function decodes the answer.
AllocAnswer(res) ==
    /\ aout.pc = "sent"
    /\ LET r == AllocDecode(ain.fn, ain.method, Version, res)
       IN  aout' = [aout EXCEPT !.pc = "done", !.res = res, !.list = r.list, !.err = r.err]
    /\ UNCHANGED <<ain, sessVars, verVars, findVars, codecVars, raceVars, objVars>>

NextAlloc ==
    \/ AllocRequest
    \/ \E res \in Answers(ain.fn) : AllocAnswer(res)

SpecAlloc == AllocInit /\ [][NextAlloc]_vars

---------------------------------------------------------------------------
(* Claims about the allocation functions *)

AllocReturned == aout.pc = "done"
AllocAnswered == aout.pc = "done" /\ aout.requests # <<>>

\* C12: every list an allocation function returns respects its cap, whatever
\* the server answered: at most 32 addresses (ipaddressfindfree, any strategy,
\* and ip6addressfindfree), at most 16 subnets and at most 16 vlan ids, on
\* both server generations.
C12_ListsRespectCaps ==
    AllocReturned =>
        Len(aout.list) <= (IF ain.fn \in {"ipaddressfindfree", "ip6addressfindfree"}
                           THEN 32 ELSE 16)


\* C14: each allocation function, once s.Request has returned: with a
\* successful transport and zero records or a status other than 200 it returns
\* an empty list and a nil error; it returns an error only when the transport
\* failed, and the list is empty then too.
C14_EmptyListIsNotAnError ==
    AllocAnswered =>
        /\ (aout.res.err => (aout.err /\ aout.list = <<>>))
        /\ ((~aout.res.err /\ (aout.res.status # 200 \/ aout.res.buf = <<>>))
               => (aout.list = <<>> /\ ~aout.err))
        /\ (aout.err => aout.res.err)

\* vlanidfindfree, answered 200 with no record, returns an empty list and no error.
C14_Witness ==
    /\ AllocAnswered /\ ain.fn = "vlanidfindfree"
    /\ ~aout.res.err /\ aout.res.status = 200 /\ aout.res.buf = <<>>
    /\ aout.list = <<>> /\ ~aout.err

\* The vlan ids of the records that carry one, in the order of the answer.
RECURSIVE FlaggedIds(_)
FlaggedIds(buf) ==
    IF buf = <<>> THEN <<>>
    ELSE (IF Head(buf).vlmvlan_vlan_id.isString
          THEN <<Head(buf).vlmvlan_vlan_id.val>> ELSE <<>>) \o FlaggedIds(Tail(buf))

\* The ids start, start + 1, ... below end, eight at most, of every record
\* that carries a free range, in the order of the answer.
RECURSIVE FreeRangeIds(_)
FreeRangeIds(buf) ==
    IF buf = <<>> THEN <<>>
    ELSE LET r == Head(buf)
             s == Atoi(r.free_start_vlan_id.val).num
             e == Atoi(r.free_end_vlan_id.val).num
             n == IF e - s > 8 THEN 8 ELSE IF e - s < 0 THEN 0 ELSE e - s
         IN  (IF r.free_start_vlan_id.isString /\ r.free_end_vlan_id.isString
              THEN [k \in 1..n |-> FormatInt(s + k - 1)] ELSE <<>>)
             \o FreeRangeIds(Tail(buf))

VlanAnswered ==
    /\ AllocAnswered /\ ain.fn = "vlanidfindfree"
    /\ ~aout.res.err /\ aout.res.status = 200 /\ aout.res.buf # <<>>

\* C15: vlanidfindfree on a session of version < 700 queries with the filter
\* row_enabled='2' and returns the vlmvlan_vlan_id of the records in server
\* order; on version >= 700 it queries with type='free' and derives the
\* candidates from free_start_vlan_id/free_end_vlan_id alone; the query and
\* the decoding of one call always follow the same branch.
C15_VlanBranchByVersion ==
    /\ (ain # <<>> /\ ain.fn = "vlanidfindfree" /\ aout.requests # <<>>) =>
          /\ Len(aout.requests) = 1
          /\ aout.requests[1].service = "rest/vlmvlan_list"
          /\ aout.requests[1].filter =
                (IF Version < 700 THEN "row_enabled='2'" ELSE "type='free'")
    /\ (ain # <<>> /\ VlanAnswered) =>
          /\ (aout.requests[1].filter = "row_enabled='2'"
                => aout.list = FlaggedIds(aout.res.buf))
          /\ (aout.requests[1].filter = "type='free'"
                => aout.list = FreeRangeIds(aout.res.buf))

\* On version 700 exactly, a record carrying both a vlan id and a free range
\* contributes the ids of its range only.
C15_Witness ==
    /\ ain # <<>> /\ VlanAnswered /\ Version = 700
    /\ aout.requests[1].filter = "type='free'"
    /\ aout.res.buf = << VlanRecord(Str(<<"1","3">>), Str(<<"5","0">>), Str(<<"5","2">>)) >>
    /\ aout.list = << <<"5","0">>, <<"5","1">> >>

RECURSIVE HexNum(_)
HexNum(cs) ==
    IF cs = <<>> THEN 0
    ELSE HexNum(SubSeq(cs, 1, Len(cs) - 1)) * 16 + HexVal(cs[Len(cs)])

\* hex is the wire form of the IPv4 address ip: eight hexadecimal digits, two
\* per octet.
IsWireFormOf(hex, ip) ==
    /\ Len(hex) = 8 /\ \A k \in 1..8 : hex[k] \in HexDigits
    /\ WireOctets(hex) = ParseAddr(ip).addr.o

\* hex is the wire form of the fully written IPv6 address ip6: thirty-two
\* hexadecimal digits, four per group.
IsWireForm6Of(hex, ip6) ==
    LET groups == Split(ip6, ":")
    IN  /\ Len(hex) = 32 /\ \A k \in 1..32 : hex[k] \in HexDigits
        /\ \A g \in 1..8 : HexNum(SubSeq(hex, 4 * g - 3, 4 * g)) = HexNum(groups[g])

IsSubnetFinder == ain # <<>> /\ ain.fn \in {"ipsubnetfindbysize", "ip6subnetfindbysize"}

\* C16: ipsubnetfindbysize and ip6subnetfindbysize with a non-empty requested
\* address issue no request and return exactly one element, the wire encoding
\* of the requested address, with a nil error; with an empty requested address
\* they query rpc/ip_find_free_subnet (rpc/ip6_find_free_subnet6) scoped to
\* the parent block.
C16_RequestedAddressSkipsServer ==
    /\ (IsSubnetFinder /\ ain.requestedIP # <<>>) =>
          /\ aout.requests = <<>>
          /\ AllocReturned =>
                /\ Len(aout.list) = 1 /\ ~aout.err
                /\ (ain.fn = "ipsubnetfindbysize" /\ ~ParseAddr(ain.requestedIP).err)
                      => IsWireFormOf(aout.list[1], ain.requestedIP)
                /\ (ain.fn = "ip6subnetfindbysize" /\ Len(Split(ain.requestedIP, ":")) = 8)
                      => IsWireForm6Of(aout.list[1], ain.requestedIP)
    /\ (IsSubnetFinder /\ ain.requestedIP = <<>> /\ aout.pc # "called") =>
          /\ Len(aout.requests) = 1
          /\ aout.requests[1].service =
                (IF ain.fn = "ipsubnetfindbysize" THEN "rpc/ip_find_free_subnet"
                                                  ELSE "rpc/ip6_find_free_subnet6")
          /\ aout.requests[1].scope =
                (IF ain.fn = "ipsubnetfindbysize" THEN "block_id" ELSE "block6_id")

\* ipsubnetfindbysize asked for 192.168.1.0 has returned c0a80100 without a request.
C16_Witness ==
    /\ IsSubnetFinder /\ ain.fn = "ipsubnetfindbysize" /\ AllocReturned
    /\ ain.requestedIP = <<"1","9","2",".","1","6","8",".","1",".","0">>
    /\ aout.requests = <<>>
    /\ aout.list = << <<"c","0","a","8","0","1","0","0">> >>

---------------------------------------------------------------------------
(* resourceipaddressCreate: two calls racing on one subnet of the server *)

\* The subnet 10.0.0.0/29 of the server: host addresses 10.0.0.1 .. 10.0.0.SubnetHosts.
SubnetHosts == 5

Creators == {"first", "second"}
NoOwner == "nobody"
Other == "another"

HostHex(k) == <<"0", "A", "0", "0", "0", "0", "0", DigitChar(k)>>

\* The server's rest/ip_free_address_list for the subnet: the maximal runs of
\* free addresses, those of a single address left out by the WHERE clause
\* free_start_ip_addr != free_end_ip_addr, ordered as ORDERBY asks.
RECURSIVE FreeRuns(_, _, _)
FreeRuns(tk, k, run) ==
    IF k > SubnetHosts
    THEN (IF run = <<>> THEN <<>> ELSE <<run>>)
    ELSE IF tk[k] = NoOwner
    THEN FreeRuns(tk, k + 1, IF run = <<>> THEN <<k, k>> ELSE <<run[1], k>>)
    ELSE (IF run = <<>> THEN <<>> ELSE <<run>>) \o FreeRuns(tk, k + 1, <<>>)

RECURSIVE Reverse(_)
Reverse(s) == IF s = <<>> THEN <<>> ELSE Reverse(Tail(s)) \o <<Head(s)>>

FreeAddressList(tk, method) ==
    LET runs  == SelectSeq(FreeRuns(tk, 1, <<>>), LAMBDA r : r[1] # r[2])
        sorted == IF method = "start" THEN runs ELSE Reverse(runs)
    IN  [err |-> FALSE, status |-> IF sorted = <<>> THEN 204 ELSE 200,
         buf |-> [n \in 1..Len(sorted) |->
                    FreeRange(Str(HostHex(sorted[n][1])), Str(HostHex(sorted[n][2])))]]

\* The host of the subnet a hostaddr parameter names, 0 when it names none.
HostOf(hostaddr) ==
    LET p == ParseAddr(hostaddr)
    IN  IF ~p.err /\ p.addr.o[1] = 10 /\ p.addr.o[2] = 0 /\ p.addr.o[3] = 0
           /\ p.addr.o[4] \in 1..SubnetHosts
        THEN p.addr.o[4] ELSE 0

\* The server's rest/ip_add with add_flag=new_only: one atomic test-and-set.
IpAddAccepts(tk, hostaddr) == HostOf(hostaddr) # 0 /\ tk[HostOf(hostaddr)] = NoOwner
IpAddAnswer(tk, hostaddr) ==
    IF IpAddAccepts(tk, hostaddr)
    THEN [status |-> 201, buf |-> <<[ret_oid |-> TRUE, errmsg |-> FALSE]>>]
    ELSE [status |-> 400, buf |-> <<[ret_oid |-> FALSE, errmsg |-> TRUE]>>]

\* Any answer to rest/ip_add taken for a creation.
CreatedOnAnyAnswer(status, buf) == TRUE

\* if (resp.StatusCode == 200 || resp.StatusCode == 201) && len(buf) > 0 {
\*     if oid, oidExist := buf[0]["ret_oid"].(string); oidExist { ... return nil
Created(status, buf) ==
    (status = 200 \/ status = 201) /\ Len(buf) > 0 /\ buf[1].ret_oid

RaceInit ==
    /\ taken \in [1..SubnetHosts -> {NoOwner, Other}]
    /\ wf \in [Creators -> [pc : {"find"}, method : {"start", "end"},
                            ipAddresses : {<<>>}, i : {0}, address : {<<>>}]]
    /\ NoSession /\ NoVersionCheck /\ NoAllocation /\ NoCodec /\ NoAllocationCall /\ NoObjects

\* ipAddresses, ipErr = ipaddressfindfree(...); if ipErr != nil { return diag.FromErr(ipErr) }
FindCandidates(w, transportOk) ==
    /\ wf[w].pc = "find"
    /\ LET res == IF transportOk THEN FreeAddressList(taken, wf[w].method)
                  ELSE [err |-> TRUE, status |-> 0, buf |-> <<>>]
           r   == ipaddressfindfree(wf[w].method, res)
       IN  wf' = [wf EXCEPT ![w] =
                    IF r.err THEN [@ EXCEPT !.pc = "failed"]
                    ELSE [@ EXCEPT !.pc = "create", !.ipAddresses = r.addresses, !.i = 1]]
    /\ UNCHANGED <<taken, sessVars, verVars, findVars, codecVars, allocVars, objVars>>

\* One turn of for i := 0; i < len(ipAddresses); i++ { ... s.Request("post", "rest/ip_add", ...) }
\* The request reaches the server or not, and its answer reaches the caller or not.
CreateAttempt(w, reached, answered) ==
    /\ wf[w].pc = "create"
    /\ wf[w].i <= Len(wf[w].ipAddresses)
    /\ (answered => reached)
    /\ LET hostaddr == wf[w].ipAddresses[wf[w].i]
           answer   == IpAddAnswer(taken, hostaddr)
       IN  /\ taken' = IF reached /\ IpAddAccepts(taken, hostaddr)
                       THEN [taken EXCEPT ![HostOf(hostaddr)] = w] ELSE taken
           /\ wf' = [wf EXCEPT ![w] =
                       IF ~answered THEN [@ EXCEPT !.pc = "failed"]
                       ELSE IF Created(answer.status, answer.buf)
                       THEN [@ EXCEPT !.pc = "done", !.address = hostaddr]
                       ELSE [@ EXCEPT !.i = @ + 1]]
    /\ UNCHANGED <<sessVars, verVars, findVars, codecVars, allocVars, objVars>>

\* The loop ends without a creation: "unable to find a suitable network or address".
CreateGivesUp(w) ==
    /\ wf[w].pc = "create"
    /\ wf[w].i > Len(wf[w].ipAddresses)
    /\ wf' = [wf EXCEPT ![w].pc = "failed"]
    /\ UNCHANGED <<taken, sessVars, verVars, findVars, codecVars, allocVars, objVars>>

NextRace ==
    \/ \E w \in Creators : \E transportOk \in BOOLEAN : FindCandidates(w, transportOk)
    \/ \E w \in Creators : \E reached, answered \in BOOLEAN : CreateAttempt(w, reached, answered)
    \/ \E w \in Creators : CreateGivesUp(w)

SpecRace == RaceInit /\ [][NextRace]_vars

\* C13: two resourceipaddressCreate calls racing on one subnet may hold the
\* same first candidate, but no address is ever recorded as the address of both
\* resources: an address recorded by a call is owned by that call on the
\* server; and a call whose create is rejected goes on to its next candidate.
C13_NoAddressRecordedTwice ==
    /\ [](\A w \in Creators :
            wf[w].pc = "done" =>
               /\ HostOf(wf[w].address) # 0
               /\ taken[HostOf(wf[w].address)] = w
               /\ \A v \in Creators \ {w} :
                     wf[v].pc = "done" => wf[v].address # wf[w].address)
    /\ [][\A w \in Creators :
            (wf[w].pc = "create" /\ wf'[w].pc = "create" /\ wf'[w] # wf[w])
               => /\ wf'[w].i = wf[w].i + 1
                  /\ taken' = taken
                  /\ ~IpAddAccepts(taken, wf[w].ipAddresses[wf[w].i])]_vars

\* Both calls were given the same first candidate; one holds it, the other was
\* rejected on it and holds its second candidate.
C13_Witness ==
    /\ wf["first"].pc = "done" /\ wf["second"].pc = "done"
    /\ wf["first"].ipAddresses # <<>> /\ wf["second"].ipAddresses # <<>>
    /\ wf["first"].ipAddresses[1] = wf["second"].ipAddresses[1]
    /\ wf["first"].address = wf["first"].ipAddresses[1]
    /\ wf["second"].i = 2 /\ wf["second"].address = wf["second"].ipAddresses[2]


---------------------------------------------------------------------------
(* Address codec on its own: iptohexip/hexiptoip, iptolong/longtoip and the
   prefix math, each applied to one argument and then its inverse to the result *)

\* A uint32 as its two 16-bit halves: the value is hi * 65536 + lo.
Uint32(hi, lo) ==
    [hi |-> (hi + (lo \div 65536)) % 65536, lo |-> lo % 65536]

\* iptolong: uint32(a)*0x1000000 + uint32(b)*0x10000 + uint32(c)*0x100 + uint32(d),
\* in 32 bits, the parts converted by Atoi with its error dropped; 0 unless
\* there are four parts.
iptolong(ip) ==
    LET ipDec == SplitDot(ip)
    IN  IF Len(ipDec) = 4
        THEN LET a == Atoi(ipDec[1]).num
                 b == Atoi(ipDec[2]).num
                 c == Atoi(ipDec[3]).num
                 d == Atoi(ipDec[4]).num
             IN  Uint32(((a % 256) * 256) + (b % 65536) + ((c \div 256) % 65536)
                           + ((d \div 65536) % 65536),
                        ((c % 256) * 256) + (d % 65536))
        ELSE Uint32(0, 0)

\* longtoip: the four bytes of iplong, most significant first.
longtoip(iplong) ==
    LET a == iplong.hi \div 256
        b == iplong.hi % 256
        c == iplong.lo \div 256
        d == iplong.lo % 256
    IN  Dotted(<<a, b, c, d>>)

\* A Go int: a sign and a magnitude hi * 65536 + lo.
GoInt(neg, hi, lo) == [neg |-> neg, hi |-> hi, lo |-> lo]
IntOf(n) == IF n < 0 THEN GoInt(TRUE, (0 - n) \div 65536, (0 - n) % 65536)
            ELSE GoInt(FALSE, n \div 65536, n % 65536)

RECURSIVE Pow2(_)
Pow2(k) == IF k = 0 THEN 1 ELSE 2 * Pow2(k - 1)

\* 1 << k in an int of `bits` bits: 2^k, the smallest int when k = bits - 1,
\* and 0 when k >= bits.
ShiftLeftOne(k, bits) ==
    IF k >= bits THEN GoInt(FALSE, 0, 0)
    ELSE IF k = bits - 1 THEN GoInt(TRUE, Pow2(k - 16), 0)
    ELSE IF k < 16 THEN GoInt(FALSE, 0, Pow2(k))
    ELSE GoInt(FALSE, Pow2(k - 16), 0)

\* sizetoprefixlength: for prefixlength > 0 && size > 1 { size = size / 2; prefixlength-- }
RECURSIVE HalveDown(_, _)
HalveDown(prefixlength, size) ==
    IF prefixlength > 0 /\ ~size.neg /\ (size.hi > 0 \/ size.lo > 1)
    THEN HalveDown(prefixlength - 1,
                   GoInt(FALSE, size.hi \div 2, (size.hi % 2) * 32768 + size.lo \div 2))
    ELSE prefixlength
sizetoprefixlength(size) == HalveDown(32, size)

\* prefixlengthtosize: 1 << (32 - uint32(length)) in the build's int, -1 out of [0,32].
prefixlengthtosize(length, bits) ==
    IF length >= 0 /\ length <= 32
    THEN ShiftLeftOne(32 - length, bits)
    ELSE IntOf(0 - 1)

\* 1 << k in a uint32: 0 when k >= 32.
Uint32ShiftLeftOne(k) ==
    IF k >= 32 THEN Uint32(0, 0)
    ELSE IF k < 16 THEN Uint32(0, Pow2(k))
    ELSE Uint32(Pow2(k - 16), 0)

\* v - 1 in a uint32: 0xffffffff below 0.
Uint32MinusOne(v) ==
    IF v.lo > 0 THEN Uint32(v.hi, v.lo - 1)
    ELSE IF v.hi > 0 THEN Uint32(v.hi - 1, 65535)
    ELSE Uint32(65535, 65535)

\* The bits left as they are.
Uint32Same(v) == v

\* ^v in a uint32.
Uint32Not(v) == Uint32(65535 - v.hi, 65535 - v.lo)

\* prefixlengthtohexip: longtoip((^((1 << (32 - uint32(length))) - 1)) & 0xffffffff),
\* "" out of [0,32].
prefixlengthtohexip(length) ==
    IF length >= 0 /\ length <= 32
    THEN longtoip(Uint32Not(Uint32MinusOne(Uint32ShiftLeftOne(32 - length))))
    ELSE <<>>

\* The widths of int of the builds the Makefile releases (386 and arm; amd64 and arm64).
IntWidths == {32, 64}

\* The arguments tried.
MaxIpParts == 5
OctetFields ==
    { <<"0">>, <<"1", "0">>, <<"1", "0", "0">>, <<"2", "5", "5">>, <<"2", "5", "6">>,
      <<"-", "1">>, <<"x">>, <<>>, <<"0", "7">> }
SampleOctets == {1, 9, 15, 16, 99, 128, 200}
IpStrings ==
    { JoinDot(parts) : parts \in Tuples(OctetFields, 4) }
    \cup { Dotted(o) : o \in [1..4 -> SampleOctets] }
    \cup UNION { { JoinDot(parts) : parts \in Tuples({<<"1">>, <<"x">>}, n) }
                 : n \in (1..MaxIpParts) \ {4} }

MaxSmallSize == 40
Sizes(bits) ==
    { IntOf(n) : n \in 1..MaxSmallSize }
    \cup { GoInt(FALSE, 0, 65535), GoInt(FALSE, 1, 0), GoInt(FALSE, 1, 1),
           GoInt(FALSE, 255, 65535), GoInt(FALSE, 32767, 65535) }
    \cup (IF bits = 64
          THEN { GoInt(FALSE, 32768, 0), GoInt(FALSE, 65535, 65535), GoInt(FALSE, 65536, 0),
                 GoInt(FALSE, 65536, 1), GoInt(FALSE, 1048576, 7) }
          ELSE {})
Lengths == (0 - 1)..33

CodecInit ==
    /\ cin \in [fn : {"iptohexip", "iptolong"}, arg : IpStrings, bits : {64}]
               \cup [fn : {"prefixlengthtosize"}, arg : Lengths, bits : IntWidths]
               \cup [fn : {"prefixlengthtohexip"}, arg : Lengths, bits : IntWidths]
               \cup { c \in [fn : {"sizetoprefixlength"},
                             arg : Sizes(32) \cup Sizes(64), bits : IntWidths] :
                        c.arg \in Sizes(c.bits) }
    /\ cout = <<>>
    /\ NoSession /\ NoVersionCheck /\ NoAllocation /\ NoAllocationCall /\ NoCreate /\ NoObjects

IpToHexIp ==
    /\ cin.fn = "iptohexip" /\ Len(cout) = 0
    /\ cout' = <<iptohexip(cin.arg)>>
    /\ UNCHANGED <<cin, sessVars, verVars, findVars, allocVars, raceVars, objVars>>

HexIpToIp ==
    /\ cin.fn = "iptohexip" /\ Len(cout) = 1
    /\ cout' = Append(cout, hexiptoip(cout[1]))
    /\ UNCHANGED <<cin, sessVars, verVars, findVars, allocVars, raceVars, objVars>>

IpToLong ==
    /\ cin.fn = "iptolong" /\ Len(cout) = 0
    /\ cout' = <<iptolong(cin.arg)>>
    /\ UNCHANGED <<cin, sessVars, verVars, findVars, allocVars, raceVars, objVars>>

LongToIp ==
    /\ cin.fn = "iptolong" /\ Len(cout) = 1
    /\ cout' = Append(cout, longtoip(cout[1]))
    /\ UNCHANGED <<cin, sessVars, verVars, findVars, allocVars, raceVars, objVars>>

PrefixLengthToSize ==
    /\ \/ cin.fn = "prefixlengthtosize" /\ Len(cout) = 0
          /\ cout' = <<prefixlengthtosize(cin.arg, cin.bits)>>
       \/ cin.fn = "sizetoprefixlength" /\ Len(cout) = 1
          /\ cout' = Append(cout, prefixlengthtosize(cout[1], cin.bits))
    /\ UNCHANGED <<cin, sessVars, verVars, findVars, allocVars, raceVars, objVars>>

SizeToPrefixLength ==
    /\ \/ cin.fn = "sizetoprefixlength" /\ Len(cout) = 0
          /\ cout' = <<sizetoprefixlength(cin.arg)>>
       \/ cin.fn = "prefixlengthtosize" /\ Len(cout) = 1
          /\ cout' = Append(cout, sizetoprefixlength(cout[1]))
    /\ UNCHANGED <<cin, sessVars, verVars, findVars, allocVars, raceVars, objVars>>

PrefixLengthToHexIp ==
    /\ cin.fn = "prefixlengthtohexip" /\ Len(cout) = 0
    /\ cout' = <<prefixlengthtohexip(cin.arg)>>
    /\ UNCHANGED <<cin, sessVars, verVars, findVars, allocVars, raceVars, objVars>>

NextCodec ==
    \/ PrefixLengthToHexIp
    \/ IpToHexIp
    \/ HexIpToIp
    \/ IpToLong
    \/ LongToIp
    \/ PrefixLengthToSize
    \/ SizeToPrefixLength

SpecCodec == CodecInit /\ [][NextCodec]_vars


---------------------------------------------------------------------------
(* Claims about the address codec *)

\* Four dot-separated decimal octets, each in 0..255.
IsDottedQuad(ip) ==
    LET parts == SplitDot(ip)
    IN  /\ Len(parts) = 4
        /\ \A k \in 1..4 :
              /\ parts[k] # <<>> /\ Len(parts[k]) <= 3
              /\ \A j \in 1..Len(parts[k]) : parts[k][j] \in Digits
              /\ DecVal(parts[k]) <= 255

Applied(fn) == cin # <<>> /\ cin.fn = fn /\ Len(cout) >= 1

\* C18: for every input that is not four dot-separated decimal octets in
\* 0..255, iptohexip returns the empty string and iptolong returns 0.
C18_CodecFailsClosed ==
    /\ (Applied("iptohexip") /\ ~IsDottedQuad(cin.arg)) => cout[1] = <<>>
    /\ (Applied("iptolong") /\ ~IsDottedQuad(cin.arg)) => cout[1] = Uint32(0, 0)


\* A valid dotted IPv4 string: four canonical decimal octets in 0..255.
IsCanonicalQuad(ip) == ~ParseAddr(ip).err

\* C19: for every valid dotted IPv4 string s, hexiptoip(iptohexip(s)) = s and
\* longtoip(iptolong(s)) = s, and iptohexip(s) is exactly 8 hexadecimal digits.
C19_RoundTrip ==
    /\ (Applied("iptohexip") /\ IsCanonicalQuad(cin.arg)) =>
          /\ Len(cout[1]) = 8
          /\ \A k \in 1..8 : cout[1][k] \in HexDigits
          /\ Len(cout) = 2 => cout[2] = cin.arg
    /\ (Applied("iptolong") /\ IsCanonicalQuad(cin.arg)) =>
          (Len(cout) = 2 => cout[2] = cin.arg)

\* 10.100.255.0 went to 0a64ff00 and back.
C19_Witness ==
    /\ Applied("iptohexip")
    /\ cin.arg = <<"1","0",".","1","0","0",".","2","5","5",".","0">>
    /\ cout = << <<"0","a","6","4","f","f","0","0">>,
                 <<"1","0",".","1","0","0",".","2","5","5",".","0">> >>


\* a <= b for two Go ints.
IntLessEq(a, b) ==
    IF a.neg /\ ~b.neg THEN TRUE
    ELSE IF ~a.neg /\ b.neg THEN a.hi = 0 /\ a.lo = 0 /\ b.hi = 0 /\ b.lo = 0
    ELSE IF ~a.neg THEN a.hi < b.hi \/ (a.hi = b.hi /\ a.lo <= b.lo)
    ELSE b.hi < a.hi \/ (a.hi = b.hi /\ b.lo <= a.lo)

\* C20: sizetoprefixlength(prefixlengthtosize(n)) = n for every n in [0,32],
\* and prefixlengthtosize(sizetoprefixlength(sz)) <= sz for every size sz >= 1.
C20_PrefixMathInverse ==
    /\ (cin # <<>> /\ cin.fn = "prefixlengthtosize" /\ Len(cout) = 2
          /\ cin.arg >= 0 /\ cin.arg <= 32) => cout[2] = cin.arg
    /\ (cin # <<>> /\ cin.fn = "sizetoprefixlength" /\ Len(cout) = 2)
          => IntLessEq(cout[2], cin.arg)


\* The four octets of the netmask of a prefix of `length` bits: the 32-bit
\* value whose top `length` bits are 1.
MaskOctets(length) ==
    [k \in 1..4 |->
        LET ones == IF length - 8 * (k - 1) > 8 THEN 8
                    ELSE IF length - 8 * (k - 1) < 0 THEN 0
                    ELSE length - 8 * (k - 1)
        IN  256 - Pow2(8 - ones)]

\* C21 as stated: prefixlengthtohexip(length) is, for length in [0,32], the
\* netmask as 8 hexadecimal digits, and the empty string for any other length.
C21_NetmaskInWireHex ==
    Applied("prefixlengthtohexip") =>
        IF cin.arg >= 0 /\ cin.arg <= 32
        THEN /\ Len(cout[1]) = 8
             /\ \A k \in 1..8 : cout[1][k] \in HexDigits
             /\ WireOctets(cout[1]) = MaskOctets(cin.arg)
        ELSE cout[1] = <<>>

\* C21 amended: prefixlengthtohexip(length) is, for length in [0,32], the
\* netmask in dotted decimal form (four decimal octets, the top `length` bits
\* of the 32-bit value set), and the empty string for any other length.
C21_NetmaskDotted ==
    Applied("prefixlengthtohexip") =>
        IF cin.arg >= 0 /\ cin.arg <= 32
        THEN cout[1] = Dotted(MaskOctets(cin.arg))
        ELSE cout[1] = <<>>

\* The netmask of a /20 came back as 255.255.240.0.
C21_Witness ==
    /\ Applied("prefixlengthtohexip") /\ cin.arg = 20
    /\ cout[1] = <<"2","5","5",".","2","5","5",".","2","4","0",".","0">>


\* ---------------------------------------------------------------------------
\* validateProxyURLValue (provider.go): the validation of the proxy_url
\* attribute. url.Parse is computed on the characters of the value; the
\* values below hold no '?', '#', '@', '[', '*' and no control character.

UrlLetters == {"a", "c", "f", "h", "k", "m", "o", "p", "s", "t", "x",
               "H", "P", "S", "T"}

ToLowerChar(c) ==
    CASE c = "H" -> "h" [] c = "P" -> "p" [] c = "S" -> "s" [] c = "T" -> "t"
      [] OTHER -> c

ToLower(cs) == [k \in 1..Len(cs) |-> ToLowerChar(cs[k])]

\* strings.Index for a one-character needle, 0 when absent.
RECURSIVE IndexFrom(_, _, _)
IndexFrom(cs, c, k) ==
    IF k > Len(cs) THEN 0
    ELSE IF cs[k] = c THEN k
    ELSE IndexFrom(cs, c, k + 1)

IndexOf(cs, c) == IndexFrom(cs, c, 1)

\* strings.LastIndex for a one-character needle, 0 when absent.
RECURSIVE LastIndexFrom(_, _, _)
LastIndexFrom(cs, c, k) ==
    IF k < 1 THEN 0
    ELSE IF cs[k] = c THEN k
    ELSE LastIndexFrom(cs, c, k - 1)

LastIndexOf(cs, c) == LastIndexFrom(cs, c, Len(cs))

HasPrefix(cs, pre) == Len(cs) >= Len(pre) /\ SubSeq(cs, 1, Len(pre)) = pre

\* net/url getScheme: letters anywhere, digits and "+-." after the first
\* character, ':' ends the scheme (an error at the first position), any other
\* character means there is no scheme.
RECURSIVE getScheme(_, _)
getScheme(rawURL, k) ==
    IF k > Len(rawURL) THEN [scheme |-> <<>>, rest |-> rawURL, err |-> FALSE]
    ELSE IF rawURL[k] \in UrlLetters THEN getScheme(rawURL, k + 1)
    ELSE IF rawURL[k] \in Digits \cup {"+", "-", "."}
         THEN IF k = 1 THEN [scheme |-> <<>>, rest |-> rawURL, err |-> FALSE]
              ELSE getScheme(rawURL, k + 1)
    ELSE IF rawURL[k] = ":"
         THEN IF k = 1 THEN [scheme |-> <<>>, rest |-> rawURL, err |-> TRUE]
              ELSE [scheme |-> SubSeq(rawURL, 1, k - 1),
                    rest   |-> SubSeq(rawURL, k + 1, Len(rawURL)),
                    err    |-> FALSE]
    ELSE [scheme |-> <<>>, rest |-> rawURL, err |-> FALSE]

\* net/url shouldEscape in host mode, on the characters used here.
HostCharAllowed(c) ==
    c \in UrlLetters \cup Digits \cup {"-", ".", "_", "~", ":", "+", "=", ";", ","}

\* net/url unescape, error only: a '%' needs two hexadecimal digits; in a host
\* it must also be %25 or at least %80, and a host holds no character that
\* would need escaping.
RECURSIVE UnescapeFails(_, _, _)
UnescapeFails(cs, k, host) ==
    IF k > Len(cs) THEN FALSE
    ELSE IF cs[k] = "%"
         THEN \/ k + 2 > Len(cs)
              \/ cs[k + 1] \notin HexDigits
              \/ cs[k + 2] \notin HexDigits
              \/ host /\ HexVal(cs[k + 1]) < 8 /\ SubSeq(cs, k, k + 2) # <<"%", "2", "5">>
              \/ UnescapeFails(cs, k + 3, host)
    ELSE \/ host /\ ~HostCharAllowed(cs[k])
         \/ UnescapeFails(cs, k + 1, host)

\* net/url validOptionalPort: empty, or ':' and digits only.
validOptionalPort(port) ==
    \/ port = <<>>
    \/ port[1] = ":" /\ \A k \in 2..Len(port) : port[k] \in Digits

\* net/url parseHost, error only.
ParseHostFails(host) ==
    \/ LastIndexOf(host, ":") # 0
         /\ ~validOptionalPort(SubSeq(host, LastIndexOf(host, ":"), Len(host)))
    \/ UnescapeFails(host, 1, TRUE)

\* url.Parse: the scheme, lower-cased, and whether parsing failed.
UrlParse(rawURL) ==
    LET s == getScheme(rawURL, 1)
        scheme == ToLower(s.scheme)
        rest == s.rest
        slash == IndexOf(rest, "/")
        segment == IF slash = 0 THEN rest ELSE SubSeq(rest, 1, slash - 1)
        hasAuthority == /\ HasPrefix(rest, <<"/", "/">>)
                        /\ (scheme # <<>> \/ ~HasPrefix(rest, <<"/", "/", "/">>))
        afterSlashes == SubSeq(rest, 3, Len(rest))
        cut == IndexOf(afterSlashes, "/")
        authority == IF cut = 0 THEN afterSlashes ELSE SubSeq(afterSlashes, 1, cut - 1)
        path == IF ~hasAuthority THEN rest
                ELSE IF cut = 0 THEN <<>>
                ELSE SubSeq(afterSlashes, cut, Len(afterSlashes))
        failed ==
            IF s.err THEN TRUE
            ELSE IF ~HasPrefix(rest, <<"/">>)
                 THEN IF scheme # <<>> THEN FALSE
                      ELSE IndexOf(segment, ":") # 0 \/ UnescapeFails(rest, 1, FALSE)
            ELSE \/ hasAuthority /\ ParseHostFails(authority)
                 \/ UnescapeFails(path, 1, FALSE)
    IN  [Scheme |-> scheme, failed |-> failed]

validSchemesWithoutSocks5 ==
    { <<"h", "t", "t", "p">>, <<"h", "t", "t", "p", "s">> }

validSchemes ==
    { <<"h", "t", "t", "p">>, <<"h", "t", "t", "p", "s">>,
      <<"s", "o", "c", "k", "s", "5">> }

\* validateProxyURLValue: "nil" for no diagnostic, else the error.
validateProxyURLValue(value) ==
    IF value = <<>> THEN "nil"
    ELSE LET proxyURL == UrlParse(value)
         IN  IF proxyURL.failed THEN "invalid url"
             ELSE IF proxyURL.Scheme # <<>> /\ proxyURL.Scheme \notin validSchemes
                  THEN "unsupported proxy url scheme"
             ELSE "nil"

\* The values offered: a head, a separator and a tail.
UrlHeads ==
    { <<>>, <<"h", "t", "t", "p">>, <<"h", "t", "t", "p", "s">>,
      <<"s", "o", "c", "k", "s", "5">>, <<"s", "o", "c", "k", "s", "4">>,
      <<"H", "T", "T", "P", "S">>, <<"f", "t", "p">>, <<"5", "x">>,
      <<"h", "t", " ", "t", "p">>, <<"h", "o", "s", "t", ".", "c", "o", "m">> }

UrlSeparators == { <<>>, <<":">>, <<":", "/">>, <<":", "/", "/">>, <<"/", "/">> }

UrlTails ==
    { <<>>, <<"h", "o", "s", "t">>, <<"h", "o", "s", "t", ":", "8", "0">>,
      <<"h", "o", "s", "t", ":", "8", "x">>, <<"h", "o", " ", "s", "t">>,
      <<"h", "o", "s", "t", "/", "p", "%", "2", "0">>,
      <<"h", "o", "s", "t", "/", "p", "%", "x">>, <<"8", "0">> }

ProxyURLValues == { h \o s \o t : h \in UrlHeads, s \in UrlSeparators, t \in UrlTails }

ProxyInit ==
    /\ cin \in [fn : {"validateProxyURLValue"}, arg : ProxyURLValues]
    /\ cout = <<>>
    /\ NoSession /\ NoVersionCheck /\ NoAllocation /\ NoAllocationCall /\ NoCreate /\ NoObjects

ValidateProxyURLValue ==
    /\ cin.fn = "validateProxyURLValue" /\ Len(cout) = 0
    /\ cout' = <<validateProxyURLValue(cin.arg)>>
    /\ UNCHANGED <<cin, sessVars, verVars, findVars, allocVars, raceVars, objVars>>

NextProxy == ValidateProxyURLValue

SpecProxy == ProxyInit /\ [][NextProxy]_vars

\* C22: validateProxyURLValue accepts the empty string, a URL without scheme
\* and a parsable URL whose scheme is http, https or socks5; it reports an
\* error for a value that does not parse and for any other scheme.
C22_ProxySchemes ==
    Applied("validateProxyURLValue") =>
        LET parsed == UrlParse(cin.arg)
            scheme == parsed.Scheme
        IN  /\ cin.arg = <<>> => cout[1] = "nil"
            /\ (cin.arg # <<>> /\ ~parsed.failed /\ scheme = <<>>) => cout[1] = "nil"
            /\ (~parsed.failed /\ scheme \in { <<"h", "t", "t", "p">>,
                                               <<"h", "t", "t", "p", "s">>,
                                               <<"s", "o", "c", "k", "s", "5">> })
                  => cout[1] = "nil"
            /\ (cin.arg # <<>> /\ parsed.failed) => cout[1] # "nil"
            /\ (~parsed.failed /\ scheme \notin { <<>>, <<"h", "t", "t", "p">>,
                                                  <<"h", "t", "t", "p", "s">>,
                                                  <<"s", "o", "c", "k", "s", "5">> })
                  => cout[1] # "nil"

\* socks5://host:80 was accepted.
C22_Witness ==
    /\ Applied("validateProxyURLValue")
    /\ cin.arg = <<"s", "o", "c", "k", "s", "5", ":", "/", "/", "h", "o", "s", "t", ":", "8", "0">>
    /\ cout[1] = "nil"


\* The records of an answer that carry a free range.
RangesOf(buf) ==
    SelectSeq(buf, LAMBDA r : r.free_start_vlan_id.isString /\ r.free_end_vlan_id.isString)

\* The ids one free range contributes: those from start on that are below
\* end, the first eight of them, in ascending order.
IdsOfRange(r) ==
    LET start == Atoi(r.free_start_vlan_id.val).num
        end   == Atoi(r.free_end_vlan_id.val).num
        ids   == { v \in start..(end - 1) : v < start + 8 }
    IN  [k \in 1..Cardinality(ids) |-> FormatInt(start + k - 1)]

\* C23: vlanidfindfree on a 7.0+ session: every free range of the answer
\* contributes start, start+1, ... ascending while the id is below end, eight
\* ids at most; the ranges are taken in the order of the answer; a range with
\* start >= end contributes nothing.
C23_RangeWalk ==
    (ain # <<>> /\ VlanAnswered /\ Version >= 700) =>
        LET ranges == RangesOf(aout.res.buf)
        IN  /\ aout.list = Concat([k \in 1..Len(ranges) |-> IdsOfRange(ranges[k])])
            /\ Len(aout.list) <= 8 * Len(ranges)
            /\ (\A k \in 1..Len(ranges) :
                   Atoi(ranges[k].free_start_vlan_id.val).num
                      >= Atoi(ranges[k].free_end_vlan_id.val).num) => aout.list = <<>>

\* The answer 100-103, 5-5, 10-20 gave 100, 101, 102 and then 10 .. 17.
C23_Witness ==
    /\ ain # <<>> /\ VlanAnswered /\ Version >= 700
    /\ aout.res.buf = << VlanRecord(NotString, Str(<<"1","0","0">>), Str(<<"1","0","3">>)),
                         VlanRecord(NotString, Str(<<"5">>), Str(<<"5">>)),
                         VlanRecord(NotString, Str(<<"1","0">>), Str(<<"2","0">>)) >>
    /\ aout.list = << <<"1","0","0">>, <<"1","0","1">>, <<"1","0","2">>,
                      <<"1","0">>, <<"1","1">>, <<"1","2">>, <<"1","3">>,
                      <<"1","4">>, <<"1","5">>, <<"1","6">>, <<"1","7">> >>


\* ---------------------------------------------------------------------------
\* One call of resourceipaddressCreate or resourcevlanCreate, from the loop
\* over the candidates on, against a server that answers anything. `taken`
\* is the list of candidates the server has created for this call, `wf` the
\* frame of the call with the requests it sent and the answers it was given.

MaxCandidates == 3

CreateHandlers == {"resourceipaddressCreate", "resourcevlanCreate"}

\* ipaddressfindfree gives dotted addresses, vlanidfindfree decimal ids.
CandidatesOf(handler) ==
    IF handler = "resourceipaddressCreate"
    THEN { Dotted(<<10, 0, 0, k>>) : k \in 1..3 }
    ELSE { Itoa(k) : k \in 10..12 }

CandidateLists(handler) ==
    UNION { { l \in [1..n -> CandidatesOf(handler)] :
                \A a, b \in 1..n : l[a] = l[b] => a = b } : n \in 0..MaxCandidates }

\* The first record of the decoded answer, when there is one.
CreateBodies ==
    { <<>>,
      << [ret_oid |-> TRUE,  errmsg |-> FALSE, oid |-> <<"4", "2">>] >>,
      << [ret_oid |-> FALSE, errmsg |-> TRUE,  oid |-> <<>>] >>,
      << [ret_oid |-> FALSE, errmsg |-> FALSE, oid |-> <<>>] >> }

\* What s.Request returns for the create: a transport error (the object
\* created or not), or a status and a body; the server has created the object
\* when it answers 200 or 201.
CreateAnswers ==
    [err : {TRUE}, status : {0}, buf : {<<>>}, created : BOOLEAN]
      \cup [err : {FALSE}, status : {200, 201}, buf : CreateBodies, created : {TRUE}]
      \cup [err : {FALSE}, status : {400}, buf : CreateBodies, created : {FALSE}]

NoId == <<>>

\* d.Set("address", ipAddresses[i]) / vnid, _ := strconv.Atoi(vlanIDs[i]); d.Set("vlan_id", vnid)
RecordedValue(handler, candidate) ==
    IF handler = "resourceipaddressCreate" THEN candidate ELSE Atoi(candidate).num

CreateInit ==
    /\ taken = <<>>
    /\ \E h \in CreateHandlers :
          wf \in [handler : {h}, pc : {"loop"}, candidates : CandidateLists(h), i : {1},
                  id : {NoId}, recorded : {<<>>}, sent : {<<>>}]
    /\ NoSession /\ NoVersionCheck /\ NoAllocation /\ NoCodec /\ NoAllocationCall /\ NoObjects

\* One turn of for i := 0; i < len(...); i++: the create request and the
\* reading of its answer.
CreateRequest(answer) ==
    /\ wf.pc = "loop"
    /\ wf.i <= Len(wf.candidates)
    /\ LET candidate == wf.candidates[wf.i]
           sent == Append(wf.sent, [candidate |-> candidate, answer |-> answer])
       IN  /\ taken' = IF answer.created THEN Append(taken, candidate) ELSE taken
           /\ wf' = IF answer.err
                    THEN [wf EXCEPT !.pc = "aborted", !.sent = sent]
                    ELSE IF Created(answer.status, answer.buf)
                    THEN [wf EXCEPT !.pc = "done", !.sent = sent,
                                    !.id = answer.buf[1].oid,
                                    !.recorded = RecordedValue(wf.handler, candidate)]
                    ELSE [wf EXCEPT !.i = @ + 1, !.sent = sent]
    /\ UNCHANGED <<sessVars, verVars, findVars, codecVars, allocVars, objVars>>

\* return diag.Errorf("Unable to create ...: unable to find a suitable ...")
CreateUnable ==
    /\ wf.pc = "loop"
    /\ wf.i > Len(wf.candidates)
    /\ wf' = [wf EXCEPT !.pc = "failed"]
    /\ UNCHANGED <<taken, sessVars, verVars, findVars, codecVars, allocVars, objVars>>

NextCreate ==
    \/ \E answer \in CreateAnswers : CreateRequest(answer)
    \/ CreateUnable

SpecCreate == CreateInit /\ [][NextCreate]_vars

Accepted(answer) == ~answer.err /\ answer.status \in {200, 201}
Rejected(answer) == ~answer.err /\ answer.status \notin {200, 201}

\* C24: the create handlers send one create per candidate, in list order; a
\* rejected candidate leads to the next one; the first candidate the server
\* accepts ends the loop and is recorded with the returned oid; a transport
\* error aborts the call; with no candidate, or every candidate rejected, the
\* call fails with no resource id.
C24_CandidatesInOrder ==
    LET n == Len(wf.sent)
    IN  /\ n <= Len(wf.candidates)
        /\ \A k \in 1..n : wf.sent[k].candidate = wf.candidates[k]
        /\ \A k \in 1..(n - 1) : Rejected(wf.sent[k].answer)
        /\ (n > 0 /\ Accepted(wf.sent[n].answer)) =>
              /\ wf.pc = "done"
              /\ wf.id = wf.sent[n].answer.buf[1].oid
              /\ wf.recorded = RecordedValue(wf.handler, wf.candidates[n])
        /\ (n > 0 /\ wf.sent[n].answer.err) => (wf.pc = "aborted" /\ wf.id = NoId)
        /\ wf.pc = "done" => (n > 0 /\ Accepted(wf.sent[n].answer))
        /\ wf.pc = "failed" =>
              /\ wf.id = NoId
              /\ n = Len(wf.candidates)
              /\ \A k \in 1..n : Rejected(wf.sent[k].answer)

\* C25: one call creates at most one candidate on the server: after a create
\* answered 200 or 201, with or without ret_oid, the call sends no further
\* create.
C25_AtMostOneCreated ==
    /\ \A k \in 1..(Len(wf.sent) - 1) : ~Accepted(wf.sent[k].answer)
    /\ Cardinality({ k \in 1..Len(wf.sent) : Accepted(wf.sent[k].answer) }) <= 1


\* ---------------------------------------------------------------------------
\* SubmitRequest against a transport whose End() may hand back any []error,
\* the non-nil list without elements included.

MaxEmptyErrorLists == 2

EmptyErrorLists(h) == Cardinality({ k \in 1..Len(h) : h[k].kind = "empty" })

\* errs != nil && len(errs) == 0: `for _, err := range errs` has no turn, so
\* neither `retryCount++; continue KeepTrying` nor the return is reached, and
\* the for statement tests retryCount < t.maxTry again.
ExchangeEmptyErrors(c) ==
    /\ call[c].pc = "end"
    /\ EmptyErrorLists(hist[c]) < MaxEmptyErrorLists
    /\ hist' = [hist EXCEPT ![c][Len(hist[c])] = [kind |-> "empty", status |-> 0]]
    /\ call' = [call EXCEPT ![c].pc = "loop"]
    /\ UNCHANGED <<declared, opened, Version, Authenticated, seen, verVars, findVars, codecVars, allocVars, raceVars, objVars>>

NextSubmit ==
    \/ GetVersionReturn
    \/ \E m \in Methods : RequestStart(1, m)
    \/ \E c \in {Opener, 1} : BeginAttempt(c)
    \/ \E c \in {Opener, 1} : Exhausted(c)
    \/ \E c \in {Opener, 1} : \E o \in PlainOutcomes(c) \cup Failures : Exchange(c, o)
    \/ \E c \in {Opener, 1} : ExchangeEmptyErrors(c)
    \/ RequestReturn(1)

SpecSubmit == Init /\ [][NextSubmit]_vars

C27_OpenNeverPanics ==
    /\ opened # "panic"
    /\ (OpenReturned /\ ProbeAnswered /\ seen.probe.status = 200 /\ seen.probe.records = 0)
          => opened \in {"error", "session"}


\* ---------------------------------------------------------------------------
\* The network interface handlers (resource_nom_interface): the addresses of
\* an interface are created and deleted one request each, every call being
\* handed the handler's gparameters.  `nom` holds the handler's locals, the
\* url.Values behind gparameters and the requests sent so far.

MaxAddrs == 3

NomAddresses == {"192.0.2.1", "192.0.2.2", "192.0.2.3"}

\* d.Get("addresses") / d.GetChange("addresses"): lists of distinct addresses.
AddressLists ==
    UNION { { l \in [1..n -> NomAddresses] : \A a, b \in 1..n : l[a] = l[b] => a = b }
            : n \in 0..MaxAddrs }

NomHandlers == {"resourcenominterfaceCreate", "resourcenominterfaceUpdate"}

IfaceName == "eth0"

\* The keys of url.Values the calls add to; the keys set once by the handler
\* (nomnetobj_name, nomfolder_path, nomiface_port_name, nomiface_port_mac) are
\* never touched again.
NomKeys == {"add_flag", "nomiface_name", "nomiface_hostaddr"}

\* url.Values.Add: the value appended to the list kept under the key.
Add(values, key, value) == [values EXCEPT ![key] = Append(@, value)]

\* gparameters when the loops start: resourcenominterfaceCreate has added
\* add_flag through `parameters := gparameters`, the same map.
GParameters(handler) ==
    IF handler = "resourcenominterfaceCreate"
    THEN Add([k \in NomKeys |-> <<>>], "add_flag", "new_only")
    ELSE [k \in NomKeys |-> <<>>]

\* stringOffsetInSlice: the offset of the first match, -1 without one.
RECURSIVE OffsetFrom(_, _, _)
OffsetFrom(s, list, offset) ==
    IF offset >= Len(list) THEN 0 - 1
    ELSE IF list[offset + 1] = s THEN offset
    ELSE OffsetFrom(s, list, offset + 1)

stringOffsetInSlice(s, list) == OffsetFrom(s, list, 0)

\* removeOffsetInSlice: if i <= 0 { return s }; s[i] = s[len(s)-1]; return s[:len(s)-1]
removeOffsetInSlice(i, s) ==
    IF i <= 0 THEN s
    ELSE SubSeq([s EXCEPT ![i + 1] = s[Len(s)]], 1, Len(s) - 1)

\* createIPInterface: iparameters := parameters names the caller's map; three
\* Adds, then the request with what the map holds.
createIPInterface(parameters, ifaceName, addr) ==
    Add(Add(Add(parameters, "add_flag", "new_only"), "nomiface_name", ifaceName),
        "nomiface_hostaddr", addr)

\* deleteIPInterface: the same with two Adds.
deleteIPInterface(parameters, ifaceName, addr) ==
    Add(Add(parameters, "nomiface_name", ifaceName), "nomiface_hostaddr", addr)

NomInit ==
    /\ \E h \in NomHandlers :
          nom \in [handler : {h}, pc : {"new"},
                   old : IF h = "resourcenominterfaceUpdate" THEN AddressLists ELSE {<<>>},
                   new : AddressLists,
                   oldaddrs : AddressLists, k : {1},
                   gparameters : {GParameters(h)}, requests : {<<>>}]
    /\ nom.oldaddrs = nom.old
    /\ smart = <<>>
    /\ NoSession /\ NoVersionCheck /\ NoAllocation /\ NoCodec /\ NoAllocationCall /\ NoCreate

\* One turn of `for _, addr := range newaddrs` (of `range d.Get("addresses")`
\* in resourcenominterfaceCreate, which creates every address).
NomNewAddress ==
    /\ nom.pc = "new"
    /\ nom.k <= Len(nom.new)
    /\ LET addr == nom.new[nom.k]
           j == IF nom.handler = "resourcenominterfaceUpdate"
                THEN stringOffsetInSlice(addr, nom.oldaddrs) ELSE 0 - 1
           sent == createIPInterface(nom.gparameters, IfaceName, addr)
       IN  nom' = IF j < 0
                  THEN [nom EXCEPT !.k = @ + 1, !.gparameters = sent,
                                   !.requests = Append(@, [service |-> "rest/nom_iface_add",
                                                            addr |-> addr,
                                                            parameters |-> sent])]
                  ELSE [nom EXCEPT !.k = @ + 1,
                                   !.oldaddrs = removeOffsetInSlice(j, nom.oldaddrs)]
    /\ UNCHANGED <<smart, sessVars, verVars, findVars, codecVars, allocVars, raceVars>>

\* The first loop is over: resourcenominterfaceCreate returns, and
\* resourcenominterfaceUpdate ranges over what is left of oldaddrs.
NomNewDone ==
    /\ nom.pc = "new"
    /\ nom.k > Len(nom.new)
    /\ nom' = [nom EXCEPT !.pc = IF nom.handler = "resourcenominterfaceUpdate"
                                 THEN "old" ELSE "done",
                          !.k = 1]
    /\ UNCHANGED <<smart, sessVars, verVars, findVars, codecVars, allocVars, raceVars>>

\* One turn of `for _, addr := range oldaddrs`.
NomOldAddress ==
    /\ nom.pc = "old"
    /\ nom.k <= Len(nom.oldaddrs)
    /\ LET addr == nom.oldaddrs[nom.k]
           sent == deleteIPInterface(nom.gparameters, IfaceName, addr)
       IN  nom' = [nom EXCEPT !.k = @ + 1, !.gparameters = sent,
                              !.requests = Append(@, [service |-> "rest/nom_iface_delete",
                                                       addr |-> addr,
                                                       parameters |-> sent])]
    /\ UNCHANGED <<smart, sessVars, verVars, findVars, codecVars, allocVars, raceVars>>

NomReturn ==
    /\ nom.pc = "old"
    /\ nom.k > Len(nom.oldaddrs)
    /\ nom' = [nom EXCEPT !.pc = "done"]
    /\ UNCHANGED <<smart, sessVars, verVars, findVars, codecVars, allocVars, raceVars>>

NextNom == NomNewAddress \/ NomNewDone \/ NomOldAddress \/ NomReturn

SpecNom == NomInit /\ [][NextNom]_vars

Elements(s) == { s[k] : k \in 1..Len(s) }

RequestedFor(service) ==
    SelectSeq(nom.requests, LAMBDA r : r.service = service)

\* C28: resourcenominterfaceUpdate, once returned, has sent one create for
\* each address of the new list that the old list lacks, one delete for each
\* address of the old list that the new list lacks, and nothing for an
\* address both lists hold, wherever it stands in the old list.
C28_SetDifference ==
    (nom.handler = "resourcenominterfaceUpdate" /\ nom.pc = "done") =>
        LET creates == RequestedFor("rest/nom_iface_add")
            deletes == RequestedFor("rest/nom_iface_delete")
        IN  /\ { r.addr : r \in Elements(creates) } = Elements(nom.new) \ Elements(nom.old)
            /\ { r.addr : r \in Elements(deletes) } = Elements(nom.old) \ Elements(nom.new)
            /\ Len(creates) = Cardinality(Elements(nom.new) \ Elements(nom.old))
            /\ Len(deletes) = Cardinality(Elements(nom.old) \ Elements(nom.new))

\* C29: createIPInterface and deleteIPInterface leave the handler's
\* gparameters as they found them, and every request carries one
\* nomiface_hostaddr, the address of its call, and no flag or name of an
\* earlier call.
C29_ParametersNotShared ==
    /\ nom.gparameters = GParameters(nom.handler)
    /\ \A k \in 1..Len(nom.requests) :
          LET r == nom.requests[k]
          IN  /\ r.parameters["nomiface_hostaddr"] = <<r.addr>>
              /\ r.parameters["nomiface_name"] = <<IfaceName>>
              /\ r.parameters["add_flag"] =
                    GParameters(nom.handler)["add_flag"]
                       \o (IF r.service = "rest/nom_iface_add" THEN <<"new_only">> ELSE <<>>)


\* ---------------------------------------------------------------------------
\* Two dnsaddtosmart calls, one per DNS server resource being created, on one
\* SMART.  `smart.members` is the server's member list of the SMART (each
\* name standing for its name&role entry), `smart.frame` the locals of each
\* call.

SmartServers == {"ns1", "ns2"}

ExistingMembers == { <<>>, <<"ns0">> }

\* The answers to rest/dns_smart_member_add: the member added (200), the
\* service missing (400, 404), another status, or a transport error.
MemberAddAnswers == {"200", "400", "404", "500", "error"}

\* The answers to rest/dns_server_list and to rest/dns_add (put): served, or
\* refused, or a transport error.
ListAnswers == {"served", "500", "error"}

SmartInit ==
    /\ smart \in [members : ExistingMembers,
                  frame : [SmartServers -> [pc : {"add"}, membersRole : {<<>>},
                                            fallback : {FALSE}, result : {FALSE}]]]
    /\ nom = <<>>
    /\ NoSession /\ NoVersionCheck /\ NoAllocation /\ NoCodec /\ NoAllocationCall /\ NoCreate

\* s.Request("post", "rest/dns_smart_member_add"): the server adds the member
\* in one step when it has the service.
SmartMemberAdd(c, answer) ==
    /\ smart.frame[c].pc = "add"
    /\ smart' =
         IF answer = "200"
         THEN [smart EXCEPT !.members = IF c \in Elements(@) THEN @ ELSE Append(@, c),
                            !.frame[c].pc = "done", !.frame[c].result = TRUE]
         ELSE IF answer \in {"400", "404"}
         THEN [smart EXCEPT !.frame[c].pc = "list", !.frame[c].fallback = TRUE]
         ELSE [smart EXCEPT !.frame[c].pc = "done"]
    /\ UNCHANGED <<nom, sessVars, verVars, findVars, codecVars, allocVars, raceVars>>

\* s.Request("get", "rest/dns_server_list"): membersRole is built from the
\* members the server lists, with the call's own server at the end.
SmartListMembers(c, answer) ==
    /\ smart.frame[c].pc = "list"
    /\ smart' =
         IF answer = "served"
         THEN [smart EXCEPT !.frame[c].pc = "update",
                            !.frame[c].membersRole = Append(smart.members, c)]
         ELSE [smart EXCEPT !.frame[c].pc = "done"]
    /\ UNCHANGED <<nom, sessVars, verVars, findVars, codecVars, allocVars, raceVars>>

\* dnssmartmembersupdate: put rest/dns_add with vdns_dns_group_role; the
\* server replaces the member list by the one it is given.
SmartMembersUpdate(c, answer) ==
    /\ smart.frame[c].pc = "update"
    /\ smart' =
         IF answer = "served"
         THEN [smart EXCEPT !.members = smart.frame[c].membersRole,
                            !.frame[c].pc = "done", !.frame[c].result = TRUE]
         ELSE [smart EXCEPT !.frame[c].pc = "done"]
    /\ UNCHANGED <<nom, sessVars, verVars, findVars, codecVars, allocVars, raceVars>>

NextSmart ==
    \/ \E c \in SmartServers : \E answer \in MemberAddAnswers : SmartMemberAdd(c, answer)
    \/ \E c \in SmartServers : \E answer \in ListAnswers : SmartListMembers(c, answer)
    \/ \E c \in SmartServers : \E answer \in ListAnswers : SmartMembersUpdate(c, answer)

SpecSmart == SmartInit /\ [][NextSmart]_vars

\* C30: when two dnsaddtosmart calls for different servers both took the
\* fallback path and both returned true, both servers are members of the
\* SMART.
C30_NoRegistrationLost ==
    (\A c \in SmartServers :
        /\ smart.frame[c].pc = "done"
        /\ smart.frame[c].fallback
        /\ smart.frame[c].result)
    => SmartServers \subseteq Elements(smart.members)

===========================================================================
